---- MODULE Spec2Model ----
(***************************************************************************)
(* Model of rvcodedb's control-signal compiler (src/ctrl-gender.py):       *)
(* the editing session of MainWindow (signal name, encoding, the list of   *)
(* ValueConfigWidget), RISCVCtrlGenerator.create_control_signal and the    *)
(* record store kept in records.json (save_record, load_records,           *)
(* delete_record).                                                         *)
(*                                                                         *)
(* Instruction names are the numbers 1..NumInst; their numeric order       *)
(* stands for the string order Python's sorted() uses.  A text is a        *)
(* sequence of tokens; the token " " is a whitespace character.           *)
(***************************************************************************)
EXTENDS Integers, Sequences, FiniteSets, TLC

VARIABLES
    signal_name_edit,   \* MainWindow.signal_name_edit: text
    encoding_combo,     \* MainWindow.encoding_combo.currentText()
    value_widgets,      \* MainWindow.value_widgets: Seq of ValueConfigWidget
    ctrl_code_editor,   \* MainWindow.ctrl_code_editor: the Ctrl code shown
    records_file,       \* content of RISCVCtrlGenerator.records_file
    clock,              \* the wall clock datetime.now() reads, in ticks
    last,               \* what the last operation did and reported
    csv_file,           \* content of the flat catalog file (db.py writes it)
    generator_instructions, \* RISCVCtrlGenerator.instructions
    writers,            \* the processes inside save_record or delete_record
    scala_files         \* the files of the two save directories, by path

vars == <<signal_name_edit, encoding_combo, value_widgets, ctrl_code_editor,
          records_file, clock, last, csv_file, generator_instructions,
          writers, scala_files>>

catalog_vars == <<csv_file, generator_instructions>>

outside_vars == <<writers, scala_files>>

\* no process is inside save_record or delete_record
NoWriters == <<>>

\* the save directories hold no file
NoFiles == {}

session == <<signal_name_edit, encoding_combo, value_widgets>>

----------------------------------------------------------------------------
(* Bounds *)

NumInst == 6            \* instructions in the loaded catalog
MaxWidgets == 2         \* value definitions an editing session holds
MaxCount == 5           \* values in a mapping handed to create_control_signal
MaxRecords == 2         \* records the store file holds
MaxClock == 3           \* last tick of the wall clock
TicksPerSecond == 2     \* sub-second readings per second
MaxEncodingLen == 2     \* characters of an encoding drawn for the converter

(* Program constants *)

MaxListed == 5          \* duplicate names an error message lists
PerLine == 5            \* instruction names on one line of generated code

Insts == 1..NumInst

Encodings == {"OneHot", "Binary", "Gray"}

----------------------------------------------------------------------------
(* Texts and str.strip() *)

IsSpace(c) == c = " "

RECURSIVE LStrip(_)
LStrip(t) ==
    IF t = <<>> THEN <<>>
    ELSE IF IsSpace(Head(t)) THEN LStrip(Tail(t))
    ELSE t

RECURSIVE RStrip(_)
RStrip(t) ==
    IF t = <<>> THEN <<>>
    ELSE IF IsSpace(t[Len(t)]) THEN RStrip(SubSeq(t, 1, Len(t) - 1))
    ELSE t

\* the text taken as typed, .strip() forgotten
Strip_Raw(t) == t

Strip(t) == RStrip(LStrip(t))

\* f"Value{len(self.value_widgets) + 1}"
DefaultValueName(n) == <<"Value", ToString(n)>>

----------------------------------------------------------------------------
(* Python helpers: sets of lists, sorted(), ordered dict *)

SetOf(list) == {list[i] : i \in DOMAIN list}

RECURSIVE Concat(_)
Concat(lists) ==
    IF lists = <<>> THEN <<>> ELSE Head(lists) \o Concat(Tail(lists))

\* insert x into an ascending list, after the elements equal to it
RECURSIVE InsertAsc(_, _)
InsertAsc(x, list) ==
    IF list = <<>> THEN <<x>>
    ELSE IF Head(list) <= x THEN <<Head(list)>> \o InsertAsc(x, Tail(list))
    ELSE <<x>> \o list

RECURSIVE Sorted(_)
Sorted(list) ==
    IF list = <<>> THEN <<>>
    ELSE InsertAsc(list[Len(list)], Sorted(SubSeq(list, 1, Len(list) - 1)))

RECURSIVE SetToSortedSeq(_)
SetToSortedSeq(S) ==
    IF S = {} THEN <<>>
    ELSE LET m == CHOOSE x \in S : \A y \in S : x <= y
         IN  <<m>> \o SetToSortedSeq(S \ {m})

\* list[:n]
Take(list, n) == SubSeq(list, 1, IF Len(list) < n THEN Len(list) ELSE n)

\* a dict is a sequence of [k, v] entries in insertion order
DictKeys(d) == [i \in DOMAIN d |-> d[i].k]

DictValues(d) == [i \in DOMAIN d |-> d[i].v]

DictHas(d, key) == \E i \in DOMAIN d : d[i].k = key

DictGet(d, key) == d[CHOOSE i \in DOMAIN d : d[i].k = key].v

\* a dict that puts a new key in front of the others
DictSet_Front(d, key, val) ==
    IF DictHas(d, key)
    THEN [i \in DOMAIN d |-> IF d[i].k = key THEN [k |-> key, v |-> val] ELSE d[i]]
    ELSE <<[k |-> key, v |-> val]>> \o d

\* d[key] = val: a key already present keeps its position
DictSet(d, key, val) ==
    IF DictHas(d, key)
    THEN [i \in DOMAIN d |-> IF d[i].k = key THEN [k |-> key, v |-> val] ELSE d[i]]
    ELSE Append(d, [k |-> key, v |-> val])

----------------------------------------------------------------------------
(* RISCVCtrlGenerator.create_control_signal *)

NoError == [kind |-> "none", listed |-> <<>>, more |-> 0]

Failure(kind) == [kind |-> kind, listed |-> <<>>, more |-> 0]

\* the loop over all_instructions: every occurrence after the first is appended
RECURSIVE DuplicateOccurrences(_)
DuplicateOccurrences(all) ==
    IF all = <<>> THEN <<>>
    ELSE LET init == SubSeq(all, 1, Len(all) - 1)
             x    == all[Len(all)]
         IN  DuplicateOccurrences(init) \o (IF x \in SetOf(init) THEN <<x>> ELSE <<>>)

\* the message without its count of the duplicates beyond the listed ones
DuplicateError_NoCount(sorted_duplicates) ==
    [kind   |-> "DuplicateInstructionAssignment",
     listed |-> Take(sorted_duplicates, MaxListed),
     more   |-> 0]

\* ", ".join(sorted(duplicates)[:5]) and, beyond five, " 等 N 条指令"
DuplicateError(sorted_duplicates) ==
    [kind   |-> "DuplicateInstructionAssignment",
     listed |-> Take(sorted_duplicates, MaxListed),
     more   |-> IF Len(sorted_duplicates) > MaxListed THEN Len(sorted_duplicates) ELSE 0]

\* int.bit_length()
RECURSIVE BitLength(_)
BitLength(k) == IF k = 0 THEN 0 ELSE 1 + BitLength(k \div 2)

\* the width taken from the bit length of count instead of count - 1
Width_OfCount(encoding_type, count) ==
    IF encoding_type = "OneHot" THEN count
    ELSE IF count > 0 THEN BitLength(count) ELSE 0

Width(encoding_type, count) ==
    IF encoding_type = "OneHot" THEN count
    ELSE IF count > 0 THEN BitLength(count - 1) ELSE 0

\* datetime.now().strftime("%Y-%m-%d %H:%M:%S"): the reading cut to the second
FormatCreatedAt(t) == [valid |-> TRUE, sec |-> t \div TicksPerSecond]

\* datetime.now().strftime("%Y%m%d_%H%M%S_%f"): second and sub-second part
FormatSignalId(t) == [sec |-> t \div TicksPerSecond, frac |-> t % TicksPerSecond]

\* the signal dict with 'instructions' taken from the last list of the loop
\* instead of all_instructions
NewSignal_LastList(name, encoding_type, value_mapping, all_instructions, t1, t2) ==
    [name          |-> name,
     encoding_type |-> encoding_type,
     width         |-> Width(encoding_type, Len(value_mapping)),
     values        |-> value_mapping,
     instructions  |-> IF value_mapping = <<>> THEN {}
                       ELSE SetOf(value_mapping[Len(value_mapping)].v),
     created_at    |-> FormatCreatedAt(t1),
     signal_id     |-> FormatSignalId(t2)]

\* the signal dict; t1 and t2 are the two readings of datetime.now()
NewSignal(name, encoding_type, value_mapping, all_instructions, t1, t2) ==
    [name          |-> name,
     encoding_type |-> encoding_type,
     width         |-> Width(encoding_type, Len(value_mapping)),
     values        |-> value_mapping,
     instructions  |-> SetOf(all_instructions),
     created_at    |-> FormatCreatedAt(t1),
     signal_id     |-> FormatSignalId(t2)]

\* create_control_signal without its duplicate check
CreateCheck_Unchecked(value_mapping) == NoError

\* the check at the head of create_control_signal: the error it raises, if any
CreateCheck(value_mapping) ==
    LET all  == Concat(DictValues(value_mapping))
        dups == DuplicateOccurrences(all)
    IN  IF Len(all) /= Cardinality(SetOf(all)) /\ dups /= <<>>
        THEN DuplicateError(Sorted(dups))
        ELSE NoError

\* result of create_control_signal: the exception raised, or the signal returned
CreateControlSignal(name, encoding_type, value_mapping, t1, t2) ==
    LET err == CreateCheck(value_mapping)
    IN  IF err.kind /= "none"
        THEN [error |-> err, signal |-> <<>>]
        ELSE [error  |-> NoError,
              signal |-> <<NewSignal(name, encoding_type, value_mapping,
                                     Concat(DictValues(value_mapping)), t1, t2)>>]

----------------------------------------------------------------------------
(* The record store: load_records, save_record, delete_record *)

MissingFile == [kind |-> "missing", records |-> <<>>]

\* a file that is not JSON: json.load raises
CorruptFile == [kind |-> "corrupt", records |-> <<>>]

\* a file holding a JSON value that is no array (an object, a number, null)
NotArrayFile == [kind |-> "not_array", records |-> <<>>]

\* a file holding a JSON array with an element that is no object
BadElementFile == [kind |-> "bad_element", records |-> <<>>]

OkFile(records) == [kind |-> "ok", records |-> records]

\* datetime.min, the key of a record whose created_at does not parse; the
\* text "0001-01-01 00:00:00" parses to it
DatetimeMin == -1

\* parse_time: the datetime of a well-formed created_at, else datetime.min
ParseTime(created_at) == IF created_at.valid THEN created_at.sec ELSE DatetimeMin

\* one step of the stable sort, newest first: r goes behind every record
\* whose key is not smaller than its own
RECURSIVE InsertDesc(_, _)
InsertDesc(r, list) ==
    IF list = <<>> THEN <<r>>
    ELSE IF ParseTime(Head(list).created_at) >= ParseTime(r.created_at)
         THEN <<Head(list)>> \o InsertDesc(r, Tail(list))
         ELSE <<r>> \o list

\* the list as read, its sort forgotten
SortByCreatedDesc_Unsorted(records) == records

\* records.sort(key=parse_time(created_at), reverse=True)
RECURSIVE SortByCreatedDesc(_)
SortByCreatedDesc(records) ==
    IF records = <<>> THEN <<>>
    ELSE InsertDesc(records[Len(records)],
                    SortByCreatedDesc(SubSeq(records, 1, Len(records) - 1)))

\* load_records whose parse_time lets a malformed created_at raise: the
\* outer except then returns []
LoadRecords_Strict(file) ==
    IF file.kind = "ok" /\ \A i \in DOMAIN file.records : file.records[i].created_at.valid
    THEN SortByCreatedDesc(file.records)
    ELSE <<>>

\* the body of load_records' try block: the sorted list, or an exception
\* raised by json.load, by records.sort or by x.get in the sort key
ReadAndSort(file) ==
    IF file.kind = "corrupt" THEN [raised |-> TRUE, records |-> <<>>]
    ELSE IF file.kind \in {"not_array", "bad_element"}
         THEN [raised |-> TRUE, records |-> <<>>]
    ELSE [raised |-> FALSE, records |-> SortByCreatedDesc(file.records)]

\* load_records catching json.JSONDecodeError only
LoadOutcome_DecodeOnly(file) ==
    IF file.kind = "missing" THEN [raised |-> FALSE, records |-> <<>>]
    ELSE IF file.kind = "corrupt" THEN [raised |-> FALSE, records |-> <<>>]
    ELSE ReadAndSort(file)

\* load_records: what it returns and whether an exception leaves it
LoadOutcome(file) ==
    IF file.kind = "missing" THEN [raised |-> FALSE, records |-> <<>>]
    ELSE IF ReadAndSort(file).raised THEN [raised |-> FALSE, records |-> <<>>]
    ELSE ReadAndSort(file)

\* load_records: [] for a missing or unreadable file, else the sorted list
LoadRecords(file) == LoadOutcome(file).records

\* save_record: the file afterwards; a failing open() or dump is swallowed
SaveRecord(file, record, can_write) ==
    IF can_write THEN OkFile(Append(LoadRecords(file), record)) ELSE file

\* a filter that stops at the first record carrying the id
RECURSIVE WithoutId_First(_, _)
WithoutId_First(records, record_id) ==
    IF records = <<>> THEN <<>>
    ELSE IF Head(records).signal_id = record_id THEN Tail(records)
    ELSE <<Head(records)>> \o WithoutId_First(Tail(records), record_id)

\* [r for r in records if r.get('signal_id') != record_id]
RECURSIVE WithoutId(_, _)
WithoutId(records, record_id) ==
    IF records = <<>> THEN <<>>
    ELSE (IF Head(records).signal_id /= record_id THEN <<Head(records)>> ELSE <<>>)
         \o WithoutId(Tail(records), record_id)

\* delete_record: the file afterwards and the value returned
DeleteRecord(file, record_id, can_write) ==
    IF can_write
    THEN [file |-> OkFile(WithoutId(LoadRecords(file), record_id)), returned |-> TRUE]
    ELSE [file |-> file, returned |-> FALSE]

----------------------------------------------------------------------------
(* RISCVCtrlGenerator.generate_ctrl_code: the computed lists *)

\* the whole list taken as one slice
Chunks_One(list) == <<list>>

\* inst_list[i:i+5] for i in range(0, len(inst_list), 5)
RECURSIVE Chunks(_)
Chunks(list) ==
    IF list = <<>> THEN <<>>
    ELSE <<Take(list, PerLine)>>
         \o Chunks(SubSeq(list, Len(Take(list, PerLine)) + 1, Len(list)))

\* one "val <name> = Value" line per key of values
ValuesList(values) == [i \in DOMAIN values |-> [val |-> values[i].k]]

\* one "def is<name>" block per item of values, its names five to a line
MethodsList(values) ==
    [i \in DOMAIN values |-> [is |-> values[i].k, lines |-> Chunks(values[i].v)]]

GenerateCtrlCode(signal) ==
    [values_list  |-> ValuesList(signal.values),
     methods_list |-> MethodsList(signal.values)]

EmptyEditor == [values_list |-> <<>>, methods_list |-> <<>>]

----------------------------------------------------------------------------
(* RISCVCtrlGenerator.generate_ctrl_code, generate_field_code, format_code:
   the code as text. A text is a sequence of tokens: "\n", " ", "{", "}",
   "=>", a brace-enclosed word such as "{signal_name}", or a run of other
   characters that holds no brace, no arrow, no blank and no line end *)

\* a replace that also takes every unknown brace-enclosed word for old
RECURSIVE Replace_Greedy(_, _, _)
Replace_Greedy(text, old, new) ==
    IF text = <<>> THEN <<>>
    ELSE IF Len(text) = 1
         THEN (IF text[1] \in {old, "{other}"} THEN new ELSE text)
    ELSE Replace_Greedy(SubSeq(text, 1, Len(text) \div 2), old, new)
         \o Replace_Greedy(SubSeq(text, Len(text) \div 2 + 1, Len(text)), old, new)

\* str.replace(old, new) where old is one brace-enclosed word: every
\* occurrence in the text is replaced, left half and right half alike
RECURSIVE Replace(_, _, _)
Replace(text, old, new) ==
    IF text = <<>> THEN <<>>
    ELSE IF Len(text) = 1 THEN (IF text[1] = old THEN new ELSE text)
    ELSE Replace(SubSeq(text, 1, Len(text) \div 2), old, new)
         \o Replace(SubSeq(text, Len(text) \div 2 + 1, Len(text)), old, new)

\* the chain code = code.replace(...) over the pairs, first pair first
RECURSIVE ReplaceEach(_, _)
ReplaceEach(text, pairs) ==
    IF pairs = <<>> THEN text
    ELSE ReplaceEach(Replace(text, Head(pairs)[1], Head(pairs)[2]), Tail(pairs))

\* sep.join(texts)
RECURSIVE JoinWith(_, _)
JoinWith(sep, texts) ==
    IF texts = <<>> THEN <<>>
    ELSE IF Len(texts) = 1 THEN texts[1]
    ELSE texts[1] \o sep \o JoinWith(sep, Tail(texts))

\* '  ' * indent_level and the fixed indents of the generated lines
RECURSIVE Spaces(_)
Spaces(n) == IF n <= 0 THEN <<>> ELSE <<" ">> \o Spaces(n - 1)

\* f'"{inst}"'
Quoted(inst) == <<"\"", ToString(inst), "\"">>

\* "    " + ', '.join(f'"{inst}"' for inst in line_insts)
InstLine(line_insts) ==
    Spaces(4) \o JoinWith(<<",", " ">>, [i \in DOMAIN line_insts |-> Quoted(line_insts[i])])

\* ',\n'.join(inst_str_parts)
InstStr(inst_list) ==
    JoinWith(<<",", "\n">>, [i \in DOMAIN Chunks(inst_list) |-> InstLine(Chunks(inst_list)[i])])

\* values_list: f"  val {value_name} = Value\n" per key
RECURSIVE ValuesListText(_)
ValuesListText(values) ==
    IF values = <<>> THEN <<>>
    ELSE Spaces(2) \o <<"val", " ">> \o Head(values).k \o <<" ", "=", " ", "Value", "\n">>
         \o ValuesListText(Tail(values))

\* the block of methods_list for one item of values
MethodBlock(value_name, inst_list) ==
    IF inst_list /= <<>>
    THEN Spaces(2) \o <<"def", " ", "is">> \o value_name
         \o <<":", " ", "Seq[String]", " ", "=", " ", "Seq(", "\n">>
         \o InstStr(inst_list) \o <<"\n">>
         \o Spaces(2) \o <<")", "\n", "\n">>
    ELSE Spaces(2) \o <<"def", " ", "is">> \o value_name
         \o <<":", " ", "Seq[String]", " ", "=", " ", "Seq()", "\n", "\n">>

\* methods_list
RECURSIVE MethodsListText(_)
MethodsListText(values) ==
    IF values = <<>> THEN <<>>
    ELSE MethodBlock(Head(values).k, Head(values).v) \o MethodsListText(Tail(values))

\* the entry of value_mappings for one item of values, without the comma
MappingEntry(name, value_name, inst_list) ==
    IF inst_list /= <<>>
    THEN Spaces(4) \o name \o <<".", "is">> \o value_name \o <<" ", "->", " ">>
         \o name \o <<".", "Values(">> \o name \o <<".">> \o value_name \o <<")">>
    ELSE Spaces(4) \o <<"Seq()", " ", "->", " ">>
         \o name \o <<".", "Values(">> \o name \o <<".">> \o value_name \o <<")">>

\* value_mappings with ",\n" after every entry
ValueMappingsText_Trailing(name, values) ==
    Concat([i \in DOMAIN values |->
               MappingEntry(name, values[i].k, values[i].v) \o <<",", "\n">>])

\* value_mappings: ",\n" after every entry but the last
ValueMappingsText(name, values) ==
    JoinWith(<<",", "\n">>,
             [i \in DOMAIN values |-> MappingEntry(name, values[i].k, values[i].v)])

\* the built-in Ctrl template; the text of a comment or an import is one token
DefaultCtrlTemplate ==
    <<"// header", "\n",
      "// generated at: ", "{generation_time}", "\n",
      "// header", "\n",
      "\n",
      "package rv.util.decoder", "\n",
      "\n",
      "import chisel3._", "\n",
      "import chisel3.util._", "\n",
      "import rv.util.CtrlEnum", "\n",
      "\n",
      "/**", "\n",
      " ", " ", "*", " ", "{signal_name}", "Ctrl", " ", "-", "\n",
      " ", " ", "*", " ", "encoding: ", "{encoding_type}", "\n",
      " ", " ", "*", " ", "width: ", "{signal_width}", " ", "bits", "\n",
      " ", " ", "*/", "\n",
      "object", " ", "{signal_name}", "Ctrl", " ", "extends", " ",
      "CtrlEnum(CtrlEnum.", "{encoding_type}", ")", " ", "{", "\n",
      " ", " ", "// values", "\n",
      "{values_list}", "\n",
      " ", " ", "\n",
      " ", " ", "// methods", "\n",
      "{methods_list}", "\n",
      " ", " ", "\n",
      " ", " ", "// helpers", "\n",
      " ", " ", "def getAllValues: Seq[UInt] = this.Values", "\n",
      " ", " ", "\n",
      " ", " ", "def getWidth: Int = this.getWidth", "\n",
      "}">>

\* the built-in Field template
DefaultFieldTemplate ==
    <<"package rv.util.decoder", "\n",
      "\n",
      "import chisel3._", "\n",
      "import chisel3.util._", "\n",
      "import chisel3.util.experimental.decode._", "\n",
      "\n",
      "object", " ", "{signal_name}", "Field", " ", "extends", " ",
      "DecodeField[InstructionPattern, UInt]", " ", "{", "\n",
      " ", " ", "override def name: String = \"", "{signal_name}", "Field\"", "\n",
      " ", " ", "override def chiselType: UInt = UInt(", "{signal_name}",
      "Ctrl.getWidth.W)", "\n",
      " ", " ", "private def map: Seq[(Seq[String], UInt)] = Seq(", "\n",
      "{value_mappings}", "\n",
      " ", " ", ")", "\n",
      " ", " ", "override def genTable(op: InstructionPattern): BitPat =", " ", "{", "\n",
      " ", " ", " ", " ", "BitPat(op.nameMatch(map, 0.U(", "{signal_name}",
      "Ctrl.getWidth.W)))", "\n",
      " ", " ", "}", "\n",
      "}">>

\* code.split('\n')
RECURSIVE SplitLines(_)
SplitLines(code) ==
    IF \A i \in DOMAIN code : code[i] /= "\n" THEN <<code>>
    ELSE LET n == CHOOSE i \in DOMAIN code :
                     code[i] = "\n" /\ \A j \in 1..(i - 1) : code[j] /= "\n"
         IN  <<SubSeq(code, 1, n - 1)>> \o SplitLines(SubSeq(code, n + 1, Len(code)))

\* the first and the last character of a token
StartsWithClose(token) == token = "}"

EndsWithClose(token) ==
    \/ token = "}"
    \/ token \in {"{signal_name}", "{encoding_type}", "{values_list}", "{methods_list}",
                  "{signal_width}", "{generation_time}", "{value_mappings}", "{other}"}

EndsWithOpen(token) == token = "{"

EndsWithArrow(token) == token = "=>"

\* the level before a line that closes a brace, with no floor
Dedent_Unbounded(indent_level) == indent_level - 1

\* max(0, indent_level - 1)
Dedent(indent_level) == IF indent_level - 1 > 0 THEN indent_level - 1 ELSE 0

\* the loop of format_code over the lines: the lines formatted so far and
\* the indent level after them
RECURSIVE FormatLines(_)
FormatLines(lines) ==
    IF lines = <<>> THEN [formatted_lines |-> <<>>, indent_level |-> 0]
    ELSE LET before   == FormatLines(SubSeq(lines, 1, Len(lines) - 1))
             line     == RStrip(lines[Len(lines)])
             stripped == Strip(line)
             level    == IF /\ stripped /= <<>>
                            /\ \/ StartsWithClose(stripped[1])
                               \/ EndsWithClose(stripped[Len(stripped)])
                         THEN Dedent(before.indent_level)
                         ELSE before.indent_level
         IN  [formatted_lines |->
                  Append(before.formatted_lines,
                         IF stripped /= <<>> THEN Spaces(2 * level) \o line ELSE <<>>),
              indent_level |->
                  IF /\ stripped /= <<>>
                     /\ \/ EndsWithOpen(stripped[Len(stripped)])
                        \/ EndsWithArrow(stripped[Len(stripped)])
                  THEN level + 1 ELSE level]

\* format_code
FormatCode(code) == JoinWith(<<"\n">>, FormatLines(SplitLines(code)).formatted_lines)

\* datetime.now().strftime("%Y-%m-%d %H:%M:%S") as one token
TimeText(now) == <<ToString(FormatCreatedAt(now).sec)>>

\* generate_ctrl_code: template is the setting chisel_ctrl_template,
\* auto_format the setting auto_format, now the reading of the clock
CtrlCodeText(template, auto_format, signal, now) ==
    LET code == ReplaceEach(
                    IF template = <<>> THEN DefaultCtrlTemplate ELSE template,
                    << <<"{signal_name}", signal.name>>,
                       <<"{encoding_type}", <<signal.encoding_type>> >>,
                       <<"{values_list}", ValuesListText(signal.values)>>,
                       <<"{methods_list}", MethodsListText(signal.values)>>,
                       <<"{signal_width}", <<ToString(signal.width)>> >>,
                       <<"{generation_time}", TimeText(now)>> >>)
    IN  IF auto_format THEN FormatCode(code) ELSE code

\* generate_field_code
FieldCodeText(template, auto_format, signal, now) ==
    LET code == ReplaceEach(
                    IF template = <<>> THEN DefaultFieldTemplate ELSE template,
                    << <<"{signal_name}", signal.name>>,
                       <<"{encoding_type}", <<signal.encoding_type>> >>,
                       <<"{signal_width}", <<ToString(signal.width)>> >>,
                       <<"{value_mappings}", ValueMappingsText(signal.name, signal.values)>>,
                       <<"{generation_time}", TimeText(now)>> >>)
    IN  IF auto_format THEN FormatCode(code) ELSE code

----------------------------------------------------------------------------
(* ValueConfigWidget and MainWindow.generate_code *)

Widget(name_edit, selected_instructions) ==
    [name_edit |-> name_edit, selected_instructions |-> selected_instructions]

\* ValueConfigWidget.get_config()['name']
ConfigName(w) == Strip(w.name_edit)

\* ValueConfigWidget.is_valid
IsValid(w) == ConfigName(w) /= <<>>

\* the loop of generate_code over value_widgets: the mapping it collects,
\* the instructions seen, those seen twice, the numbers of the invalid widgets
RECURSIVE Collect(_)
Collect(widgets) ==
    IF widgets = <<>>
    THEN [value_mapping |-> <<>>, all_instructions |-> {},
          duplicate_instructions |-> {}, invalid_widgets |-> <<>>]
    ELSE LET n    == Len(widgets)
             acc  == Collect(SubSeq(widgets, 1, n - 1))
             w    == widgets[n]
             list == w.selected_instructions
         IN  IF IsValid(w)
             THEN [value_mapping |-> DictSet(acc.value_mapping, ConfigName(w), list),
                   all_instructions |-> acc.all_instructions \cup SetOf(list),
                   duplicate_instructions |->
                       acc.duplicate_instructions
                       \cup {list[j] : j \in {i \in DOMAIN list :
                                 \/ list[i] \in acc.all_instructions
                                 \/ \E h \in 1..(i - 1) : list[h] = list[i]}},
                   invalid_widgets |-> acc.invalid_widgets]
             ELSE [acc EXCEPT !.invalid_widgets = Append(@, n)]

\* what an operation leaves behind for the caller to see
Outcome(op, error, signal, write_ok, returned) ==
    [op |-> op, error |-> error, signal |-> signal, write_ok |-> write_ok,
     returned |-> returned]

Idle == Outcome("none", NoError, <<>>, TRUE, TRUE)

\* the tail of generate_code: create_control_signal, save_record, show the code
CommitStep(op, name, encoding_type, value_mapping) ==
    LET check == CreateCheck(value_mapping)
    IN  IF check.kind /= "none"
        THEN /\ last' = Outcome(op, check, <<>>, TRUE, FALSE)
             /\ UNCHANGED <<session, ctrl_code_editor, records_file, clock, catalog_vars, outside_vars>>
        ELSE /\ \E d \in 0..1, can_write \in BOOLEAN :
                   LET out == CreateControlSignal(name, encoding_type, value_mapping,
                                                  clock, clock + d)
                       sig == out.signal[1]
                   IN  /\ records_file' = SaveRecord(records_file, sig, can_write)
                       /\ ctrl_code_editor' =
                              IF op = "generate_code" THEN GenerateCtrlCode(sig)
                              ELSE ctrl_code_editor
                       /\ clock' = clock + d + 1
                       /\ last' = Outcome(op, NoError, <<sig>>, can_write, TRUE)
             /\ UNCHANGED <<session, catalog_vars, outside_vars>>

\* MainWindow.generate_code; reply answers "continue with incomplete values?"
GenerateCode ==
    LET signal_name == Strip(signal_name_edit)
        c           == Collect(value_widgets)
        fail(err)   == /\ last' = Outcome("generate_code", err, <<>>, TRUE, FALSE)
                       /\ UNCHANGED <<session, ctrl_code_editor, records_file, clock, catalog_vars, outside_vars>>
    IN  IF signal_name = <<>> THEN fail(Failure("MissingSignalName"))
        ELSE IF c.value_mapping = <<>> THEN fail(Failure("EmptyConfiguration"))
        ELSE IF c.duplicate_instructions /= {}
             THEN fail(DuplicateError(SetToSortedSeq(c.duplicate_instructions)))
        ELSE \E reply \in BOOLEAN :
               IF c.invalid_widgets /= <<>> /\ ~reply
               THEN fail(Failure("Cancelled"))
               ELSE CommitStep("generate_code", signal_name, encoding_combo,
                               c.value_mapping)

----------------------------------------------------------------------------
(* Editing the session: MainWindow and ValueConfigWidget handlers *)

\* generator.instructions: the loaded catalog, in file order
Catalog == [i \in 1..NumInst |-> i]

\* Instruction(name, extension, encode, args)
Instruction(name, extension, encode, args) ==
    [name |-> name, extension |-> extension, encode |-> encode, args |-> args]

\* generator.instructions behind Catalog
CatalogInstructions ==
    [i \in DOMAIN Catalog |-> Instruction(Catalog[i], <<"rv_i">>, <<>>, <<>>)]

\* no catalog file at the path
MissingCsv == [kind |-> "missing", lines |-> <<>>]

\* what the user may type into a name field
SignalTexts == {<<>>, <<" ">>, <<"InstTypeCtrl">>}

ValueTexts == {<<" ">>, <<"Value", "1">>, <<"Value", "2">>, <<"Value", "1", " ">>}

\* the items the user may click in the selection dialog
PickSets == SUBSET (1..2)

Edited ==
    /\ last' = Idle
    /\ UNCHANGED <<ctrl_code_editor, records_file, clock, catalog_vars, outside_vars>>

SetSignalName(text) ==
    /\ text /= signal_name_edit
    /\ signal_name_edit' = text
    /\ UNCHANGED <<encoding_combo, value_widgets>>
    /\ Edited

SetEncoding(encoding_type) ==
    /\ encoding_type /= encoding_combo
    /\ encoding_combo' = encoding_type
    /\ UNCHANGED <<signal_name_edit, value_widgets>>
    /\ Edited

\* MainWindow.add_value_widget
AddValueWidget ==
    /\ Len(value_widgets) < MaxWidgets
    /\ value_widgets' =
           Append(value_widgets, Widget(DefaultValueName(Len(value_widgets) + 1), <<>>))
    /\ UNCHANGED <<signal_name_edit, encoding_combo>>
    /\ Edited

\* MainWindow.remove_last_value_widget
RemoveLastValueWidget ==
    /\ Len(value_widgets) > 0
    /\ value_widgets' = SubSeq(value_widgets, 1, Len(value_widgets) - 1)
    /\ UNCHANGED <<signal_name_edit, encoding_combo>>
    /\ Edited

\* typing into ValueConfigWidget.name_edit
SetValueName(i, text) ==
    /\ i \in DOMAIN value_widgets
    /\ text /= value_widgets[i].name_edit
    /\ value_widgets' = [value_widgets EXCEPT ![i].name_edit = text]
    /\ UNCHANGED <<signal_name_edit, encoding_combo>>
    /\ Edited

\* MainWindow.get_disabled_instructions_for_widget
DisabledInstructionsFor(widgets, i) ==
    UNION {SetOf(widgets[j].selected_instructions) : j \in DOMAIN widgets \ {i}}

\* InstructionSelectDialog.get_selected_instructions: the selected items in
\* list order
SelectedInDialog(picked) == SelectSeq(Catalog, LAMBDA inst : inst \in picked)

\* select_instructions taking what the dialog returns as it is
SelectionAfter_Chosen(widgets, i, picked, accepted, remove) ==
    IF accepted THEN SelectedInDialog(picked) ELSE widgets[i].selected_instructions

\* ValueConfigWidget.select_instructions: the widget's selection afterwards.
\* accepted: the dialog was closed with OK; remove: the answer to the
\* conflict question
SelectionAfter(widgets, i, picked, accepted, remove) ==
    LET disabled == DisabledInstructionsFor(widgets, i)
        filtered == SelectSeq(widgets[i].selected_instructions,
                              LAMBDA inst : inst \notin disabled)
        chosen   == SelectedInDialog(picked)
        conflict == SetOf(chosen) \cap disabled
    IN  IF ~accepted THEN filtered
        ELSE IF conflict = {} THEN chosen
        ELSE IF remove THEN SelectSeq(chosen, LAMBDA inst : inst \notin conflict)
        ELSE filtered

SelectInstructions(i, picked, accepted, remove) ==
    /\ i \in DOMAIN value_widgets
    /\ value_widgets' =
           [value_widgets EXCEPT ![i].selected_instructions =
               SelectionAfter(value_widgets, i, picked, accepted, remove)]
    /\ value_widgets' /= value_widgets
    /\ UNCHANGED <<signal_name_edit, encoding_combo>>
    /\ Edited

----------------------------------------------------------------------------
(* RecordManagerDialog: edit and delete the selected row *)

\* RecordManagerDialog.get_selected_record: the first record carrying the id
\* shown in the selected row
SelectedRecord(file, row) ==
    LET records == LoadRecords(file)
        first   == CHOOSE i \in DOMAIN records :
                      /\ records[i].signal_id = records[row].signal_id
                      /\ \A j \in 1..(i - 1) : records[j].signal_id /= records[row].signal_id
    IN  records[first]

\* the widgets load_record_data builds from record['values']
WidgetsOf(values) == [i \in DOMAIN values |-> Widget(values[i].k, values[i].v)]

\* MainWindow.load_record_data
LoadRecordData(record) ==
    /\ signal_name_edit' = record.name
    /\ encoding_combo' = IF record.encoding_type \in Encodings
                          THEN record.encoding_type ELSE encoding_combo
    /\ value_widgets' = WidgetsOf(record.values)
    /\ ctrl_code_editor' = GenerateCtrlCode(record)
    /\ last' = Outcome("load_record_data", NoError, <<record>>, TRUE, TRUE)
    /\ UNCHANGED <<records_file, clock, catalog_vars, outside_vars>>

\* RecordManagerDialog.edit_record
EditRecord(row) ==
    /\ row \in DOMAIN LoadRecords(records_file)
    /\ LoadRecordData(SelectedRecord(records_file, row))

\* RecordManagerDialog.delete_record, confirmed
DeleteSelected(row) ==
    /\ row \in DOMAIN LoadRecords(records_file)
    /\ \E can_write \in BOOLEAN :
          LET record == SelectedRecord(records_file, row)
              out    == DeleteRecord(records_file, record.signal_id, can_write)
          IN  /\ records_file' = out.file
              /\ last' = Outcome("delete_record", NoError, <<record>>, can_write,
                                  out.returned)
    /\ UNCHANGED <<session, ctrl_code_editor, clock, catalog_vars, outside_vars>>

----------------------------------------------------------------------------
(* The environment: the wall clock is set back (NTP, DST, the user) *)

ClockSetBack ==
    /\ \E t \in 0..(clock - 1) : clock' = t
    /\ UNCHANGED <<session, ctrl_code_editor, records_file, last, catalog_vars, outside_vars>>

----------------------------------------------------------------------------
(* RISCVCtrlGenerator called without the window *)

\* create_control_signal(name, encoding_type, value_mapping) on the session's
\* name, encoding and collected mapping, with none of generate_code's checks
CreateDirect ==
    CommitStep("create_control_signal", signal_name_edit, encoding_combo,
               Collect(value_widgets).value_mapping)

\* save_record(record)
SaveDirect(record) ==
    /\ \E can_write \in BOOLEAN :
          /\ records_file' = SaveRecord(records_file, record, can_write)
          /\ last' = Outcome("save_record", NoError, <<record>>, can_write, TRUE)
    /\ UNCHANGED <<session, ctrl_code_editor, clock, catalog_vars, outside_vars>>

\* delete_record(record_id); the outcome keeps the id passed
DeleteDirect(record_id) ==
    /\ \E can_write \in BOOLEAN :
          LET out == DeleteRecord(records_file, record_id, can_write)
          IN  /\ records_file' = out.file
              /\ last' = [arg |-> record_id]
                          @@ Outcome("delete_record", NoError, <<>>, can_write, out.returned)
    /\ UNCHANGED <<session, ctrl_code_editor, clock, catalog_vars, outside_vars>>

----------------------------------------------------------------------------
(* db.py: the converter from instruction descriptors to the flat catalog *)

\* the characters 0 and 1 kept by the converter
Bits == {"0", "1"}

\* the length validate_instructions asks of an encoding
EncodingBits == 32

\* convert_encoding_to_question_marks with the else branch keeping the
\* character
ConvertEncoding_Keep(encoding) == encoding

\* convert_encoding_to_question_marks
ConvertEncoding(encoding) ==
    [i \in DOMAIN encoding |-> IF encoding[i] \in Bits THEN encoding[i] ELSE "?"]

\* the index of the first " " of a text, 0 if it has none
FirstSpace(t) ==
    IF \E i \in DOMAIN t : t[i] = " "
    THEN CHOOSE i \in DOMAIN t : t[i] = " " /\ \A j \in 1..(i - 1) : t[j] /= " "
    ELSE 0

\* the fields csv.reader(delimiter=' ') cuts a non-empty line into: every
\* single space ends a field
RECURSIVE SplitFields(_)
SplitFields(t) ==
    IF FirstSpace(t) = 0 THEN <<t>>
    ELSE <<SubSeq(t, 1, FirstSpace(t) - 1)>>
         \o SplitFields(SubSeq(t, FirstSpace(t) + 1, Len(t)))

\* ' '.join(texts)
RECURSIVE JoinSpace(_)
JoinSpace(texts) ==
    IF texts = <<>> THEN <<>>
    ELSE IF Len(texts) = 1 THEN texts[1]
    ELSE texts[1] \o <<" ">> \o JoinSpace(Tail(texts))

\* one value of the JSON object: a descriptor, or something that is no object
Descriptor(encoding, variable_fields, extension) ==
    [is_dict |-> TRUE, encoding |-> encoding, variable_fields |-> variable_fields,
     extension |-> extension]

NotADescriptor ==
    [is_dict |-> FALSE, encoding |-> <<>>, variable_fields |-> <<>>, extension |-> <<>>]

\* the loop of parse_riscv_json over data.items(): data is a sequence of
\* [name, body] entries
RECURSIVE ParseRiscvJson(_)
ParseRiscvJson(data) ==
    IF data = <<>> THEN <<>>
    ELSE LET n    == Len(data)
             body == data[n].body
             init == ParseRiscvJson(SubSeq(data, 1, n - 1))
         IN  IF ~body.is_dict \/ body.encoding = <<>> THEN init
             ELSE Append(init,
                         [name            |-> data[n].name,
                          extension       |-> JoinSpace(body.extension),
                          encoding        |-> ConvertEncoding(body.encoding),
                          variable_fields |-> JoinSpace(body.variable_fields)])

\* the line generate_space_separated_csv writes for one instruction
CsvLine(instr) ==
    instr.name \o <<" ">> \o instr.extension \o <<" ">> \o instr.encoding
    \o <<" ">> \o instr.variable_fields

\* the file generate_space_separated_csv writes
CsvFileOf(instructions) ==
    [kind |-> "ok", lines |-> [i \in DOMAIN instructions |-> CsvLine(instructions[i])]]

\* text.split(): the words between runs of spaces
SplitWords(t) == SelectSeq(SplitFields(t), LAMBDA field : field /= <<>>)

\* get_all_extensions
AllExtensions(instructions) ==
    UNION {SetOf(SplitWords(instructions[i].extension)) : i \in DOMAIN instructions}

\* filter_by_extensions with the test of the intersection left out
FilterByExtensions_All(instructions, extensions_filter) == instructions

\* filter_by_extensions
FilterByExtensions(instructions, extensions_filter) ==
    IF extensions_filter = {} THEN instructions
    ELSE SelectSeq(instructions,
                   LAMBDA instr :
                      SetOf(SplitWords(instr.extension)) \cap extensions_filter /= {})

\* validate_instructions finding nothing
ValidationIssues_None(instructions) == <<>>

\* validate_instructions: the instructions it has an issue with
ValidationIssues(instructions) ==
    SelectSeq(instructions,
              LAMBDA instr :
                 \/ Len(instr.encoding) /= EncodingBits
                 \/ \E i \in DOMAIN instr.encoding :
                       instr.encoding[i] \notin {"0", "1", "?"})

\* the --extensions argument after split(','), strip() and the drop of
\* empty items
ExtensionsList(items) ==
    SelectSeq([i \in DOMAIN items |-> Strip(items[i])], LAMBDA item : item /= <<>>)

\* how main ends: the exit code, the instructions it got to, whether it
\* writes the output file
Exit(code, kind, instructions, writes) ==
    [exit_code |-> code, kind |-> kind, instructions |-> instructions,
     writes |-> writes]

\* main from the filter on: args.extensions is given and not empty
MainFiltered(instructions, args, can_write) ==
    LET extensions_set == SetOf(ExtensionsList(args.extensions.items))
        all_extensions == AllExtensions(instructions)
        kept_set       == extensions_set \cap all_extensions
        filtered       == FilterByExtensions(instructions, kept_set)
    IN  IF extensions_set = {} THEN Exit(1, "NoValidExtensions", instructions, FALSE)
        ELSE IF kept_set = {} THEN Exit(1, "NoMatchingExtensions", instructions, FALSE)
        ELSE IF filtered = <<>> THEN Exit(1, "NoMatchingExtensions", filtered, FALSE)
        ELSE IF args.validate /\ ValidationIssues(filtered) /= <<>>
             THEN Exit(1, "ValidationFailed", filtered, FALSE)
        ELSE IF can_write THEN Exit(0, "none", filtered, TRUE)
        ELSE Exit(1, "WriteFailed", filtered, FALSE)

\* main of db.py on the input file and the arguments given
MainResult(input, args, can_write) ==
    LET instructions == ParseRiscvJson(input.data)
    IN  IF input.kind /= "ok" THEN Exit(1, "InvalidInput", <<>>, FALSE)
        ELSE IF instructions = <<>> THEN Exit(1, "EmptyInstructionSet", <<>>, FALSE)
        ELSE IF args.list_extensions THEN Exit(0, "none", instructions, FALSE)
        ELSE IF args.extensions.given /\ args.extensions.items /= <<>>
             THEN MainFiltered(instructions, args, can_write)
        ELSE IF args.validate /\ ValidationIssues(instructions) /= <<>>
             THEN Exit(1, "ValidationFailed", instructions, FALSE)
        ELSE IF can_write THEN Exit(0, "none", instructions, TRUE)
        ELSE Exit(1, "WriteFailed", instructions, FALSE)

\* one run of db.py
RunConverter(input, args, can_write) ==
    LET out == MainResult(input, args, can_write)
    IN  /\ csv_file' = IF out.writes THEN CsvFileOf(out.instructions) ELSE csv_file
        /\ last' = [arg |-> [input |-> input, args |-> args], exit |-> out]
                    @@ Outcome("db_main",
                               IF out.kind = "none" THEN NoError ELSE Failure(out.kind),
                               <<>>, out.writes, out.exit_code = 0)
        /\ UNCHANGED <<session, ctrl_code_editor, records_file, clock,
                       generator_instructions, outside_vars>>

----------------------------------------------------------------------------
(* RISCVCtrlGenerator.load_csv *)

\* one row of csv.reader: [] for an empty line
CsvRow(line) == IF line = <<>> THEN <<>> ELSE SplitFields(line)

\* a line holds bytes the reader cannot decode: reading it raises
Undecodable(line) == \E i \in DOMAIN line : line[i] = "\\xff"

\* the loop of load_csv over the rows of lines: a row of fewer than three
\* fields is passed over
RECURSIVE RowsLoaded(_)
RowsLoaded(lines) ==
    IF lines = <<>> THEN <<>>
    ELSE LET row  == CsvRow(lines[Len(lines)])
             init == RowsLoaded(SubSeq(lines, 1, Len(lines) - 1))
         IN  IF Len(row) >= 3
             THEN Append(init, Instruction(row[1], row[2], row[3],
                                           SubSeq(row, 4, Len(row))))
             ELSE init

\* the lines read before the first one that cannot be decoded
RECURSIVE Readable(_)
Readable(lines) ==
    IF lines = <<>> \/ Undecodable(Head(lines)) THEN <<>>
    ELSE <<Head(lines)>> \o Readable(Tail(lines))

\* load_csv: the catalog afterwards and whether it raised
LoadCsvResult(file) ==
    IF file.kind = "missing"
    THEN [instructions |-> <<>>, raised |-> TRUE]
    ELSE [instructions |-> RowsLoaded(Readable(file.lines)),
          raised       |-> \E i \in DOMAIN file.lines : Undecodable(file.lines[i])]

\* MainWindow.load_csv_data: generator.load_csv(file_path), then the list
\* shown is refreshed; a raise is reported by the caller
LoadCsv ==
    LET out == LoadCsvResult(csv_file)
    IN  /\ generator_instructions' = out.instructions
        /\ last' = Outcome("load_csv",
                            IF out.raised THEN Failure("LoadFailed") ELSE NoError,
                            <<>>, TRUE, ~out.raised)
        /\ UNCHANGED <<session, ctrl_code_editor, records_file, clock, csv_file,
                       outside_vars>>

----------------------------------------------------------------------------
(* One operation on any state of the session and of the store *)

\* the lists of instruction names a value definition may hold
Lists == {<<>>, <<1>>, <<2, 3>>, <<1, 2>>}

\* value definitions as typed, picked or loaded from a record
WidgetChoices == {Widget(text, list) : text \in ValueTexts, list \in Lists}

\* count definitions under their default names, all holding the same list
Uniform(count, list) == [i \in 1..count |-> Widget(DefaultValueName(i), list)]

Configs ==
    {<<>>}
    \cup {<<w>> : w \in WidgetChoices}
    \cup {<<w1, w2>> : w1 \in WidgetChoices, w2 \in WidgetChoices}
    \cup {Uniform(count, list) : count \in 0..MaxCount,
                                 list \in {<<>>, SubSeq(Catalog, 1, 4), Catalog}}

\* records found in a records.json written earlier or edited by hand
StoredRecord(values, created_at, signal_id) ==
    [name          |-> <<"InstTypeCtrl">>,
     encoding_type |-> "Binary",
     width         |-> Width("Binary", Len(values)),
     values        |-> values,
     instructions  |-> SetOf(Concat(DictValues(values))),
     created_at    |-> created_at,
     signal_id     |-> signal_id]

Early == StoredRecord(<<[k |-> <<"Value", "1">>, v |-> <<1>>]>>,
                      [valid |-> TRUE, sec |-> 0], [sec |-> 0, frac |-> 0])

Undated == StoredRecord(<<[k |-> <<"Value", "2">>, v |-> <<2>>],
                          [k |-> <<"Value", "1">>, v |-> <<2>>]>>,
                        [valid |-> FALSE, sec |-> 0], [sec |-> 0, frac |-> 1])

Late == StoredRecord(<<>>, [valid |-> TRUE, sec |-> TicksPerSecond],
                     [sec |-> 0, frac |-> 0])

\* a record dated "0001-01-01 00:00:00"
Oldest == StoredRecord(<<>>, [valid |-> TRUE, sec |-> DatetimeMin],
                       [sec |-> 1, frac |-> 1])

ForeignRecords == {Early, Undated, Late}

\* the ids delete_record may be given: two that occur, one that does not
RecordIds == {Early.signal_id, Undated.signal_id, [sec |-> 1, frac |-> 0]}

PriorStores ==
    {MissingFile, CorruptFile, NotArrayFile, BadElementFile,
     OkFile(<<>>), OkFile(<<Undated, Early>>),
     OkFile(<<Early, Undated, Late>>), OkFile(<<Undated, Oldest>>)}
    \cup {OkFile(<<record>>) : record \in ForeignRecords}

Init ==
    /\ signal_name_edit \in SignalTexts
    /\ encoding_combo \in Encodings
    /\ value_widgets \in Configs
    /\ ctrl_code_editor = EmptyEditor
    /\ records_file \in PriorStores
    /\ clock \in 0..TicksPerSecond
    /\ last = Idle
    /\ csv_file = MissingCsv
    /\ generator_instructions = CatalogInstructions
    /\ writers = NoWriters
    /\ scala_files = NoFiles

\* one call, on the state drawn
CallGenerateCode == last = Idle /\ GenerateCode

CallCreateDirect == last = Idle /\ CreateDirect

CallSaveDirect == last = Idle /\ \E record \in ForeignRecords : SaveDirect(record)

CallDeleteDirect == last = Idle /\ \E record_id \in RecordIds : DeleteDirect(record_id)

Next ==
    \/ CallGenerateCode
    \/ CallCreateDirect
    \/ CallSaveDirect
    \/ CallDeleteDirect

Spec == Init /\ [][Next]_vars

----------------------------------------------------------------------------
(* Sequences of commits, deletions and loads, from an empty store *)

RunConfigs ==
    {<<>>,
     <<Widget(<<"Value", "1">>, <<1>>)>>,
     <<Widget(<<"Value", "1">>, <<1>>), Widget(<<"Value", "2">>, <<2>>)>>,
     <<Widget(<<"Value", "1">>, <<1, 2>>), Widget(<<"Value", "2">>, <<2>>)>>}

InitRun ==
    /\ signal_name_edit = <<"InstTypeCtrl">>
    /\ encoding_combo = "OneHot"
    /\ value_widgets \in RunConfigs
    /\ ctrl_code_editor = EmptyEditor
    /\ records_file = MissingFile
    /\ clock = 0
    /\ last = Idle
    /\ csv_file = MissingCsv
    /\ generator_instructions = CatalogInstructions
    /\ writers = NoWriters
    /\ scala_files = NoFiles

\* the store has room for one more record and the clock for one more commit
Room ==
    /\ Len(LoadRecords(records_file)) < MaxRecords
    /\ clock + 2 <= MaxClock

RunGenerateCode == Room /\ GenerateCode

RunCreateDirect == Room /\ CreateDirect

NextRun ==
    \/ RunGenerateCode
    \/ RunCreateDirect
    \/ \E row \in 1..MaxRecords : EditRecord(row)
    \/ \E row \in 1..MaxRecords : DeleteSelected(row)
    \/ ClockSetBack

SpecRun == InitRun /\ [][NextRun]_vars

----------------------------------------------------------------------------
(* The application from its construction: editing the session *)

InitEdit ==
    /\ signal_name_edit = <<"InstTypeCtrl">>
    /\ encoding_combo = "OneHot"
    /\ value_widgets = <<>>
    /\ ctrl_code_editor = EmptyEditor
    /\ records_file = MissingFile
    /\ clock = 0
    /\ last = Idle
    /\ csv_file = MissingCsv
    /\ generator_instructions = CatalogInstructions
    /\ writers = NoWriters
    /\ scala_files = NoFiles

NextEdit ==
    \/ \E text \in SignalTexts : SetSignalName(text)
    \/ \E encoding_type \in Encodings : SetEncoding(encoding_type)
    \/ AddValueWidget
    \/ RemoveLastValueWidget
    \/ \E i \in 1..MaxWidgets, text \in ValueTexts : SetValueName(i, text)
    \/ \E i \in 1..MaxWidgets, picked \in PickSets, accepted, remove \in BOOLEAN :
          SelectInstructions(i, picked, accepted, remove)

SpecEdit == InitEdit /\ [][NextEdit]_vars

----------------------------------------------------------------------------
(* The converter and the catalog load: db.py run on a JSON file, load_csv on
   the file it wrote or on a file written by hand *)

\* the characters an encoding is drawn from
EncodingChars == {"0", "1", "-", " "}

RECURSIVE TextsUpTo(_)
TextsUpTo(n) ==
    IF n = 0 THEN {<<>>}
    ELSE TextsUpTo(n - 1)
         \cup {Append(t, c) : t \in {u \in TextsUpTo(n - 1) : Len(u) = n - 1},
                               c \in EncodingChars}

\* an encoding of the full length
Bits32 == [i \in 1..EncodingBits |-> IF i % 4 = 0 THEN "-" ELSE IF i % 2 = 0 THEN "1" ELSE "0"]

EncodingTexts == TextsUpTo(MaxEncodingLen) \cup {Bits32}

ExtensionLists == {<<>>, << <<"rv_i">> >>, << <<"rv_i">>, <<"rv64_i">> >>}

FieldLists == {<<>>, << <<"rd">> >>, << <<"rd">>, <<"rs1">> >>}

Entry(name, body) == [name |-> name, body |-> body]

\* the JSON objects db.py is run on
Datas ==
    {<<>>}
    \cup {<<Entry(<<"add">>, Descriptor(encoding, variable_fields, extension))>> :
             encoding \in EncodingTexts, variable_fields \in FieldLists,
             extension \in ExtensionLists}
    \cup {<<Entry(<<"add">>, Descriptor(Bits32, << <<"rd">> >>, << <<"rv_i">> >>)),
             Entry(<<"junk">>, NotADescriptor),
             Entry(<<"sub">>, Descriptor(<<"1", "-">>, <<>>, extension))>> :
             extension \in ExtensionLists \cup {<< <<"rv64_i">> >>}}

JsonInputs ==
    {[kind |-> kind, data |-> <<>>] : kind \in {"missing", "invalid_json", "not_dict"}}
    \cup {[kind |-> "ok", data |-> data] : data \in Datas}

\* --extensions: not given, "", " ", "rv_i", " rv64_i ,zzz", "zzz"
ExtensionArgs ==
    {[given |-> FALSE, items |-> <<>>],
     [given |-> TRUE, items |-> <<>>],
     [given |-> TRUE, items |-> << <<" ">> >>],
     [given |-> TRUE, items |-> << <<"rv_i">> >>],
     [given |-> TRUE, items |-> << <<" ", "rv64_i", " ">>, <<"zzz">> >>],
     [given |-> TRUE, items |-> << <<"zzz">> >>]}

ConverterArgs ==
    [extensions : ExtensionArgs, list_extensions : BOOLEAN, validate : BOOLEAN]

\* a catalog line written by hand
GoodLine == <<"add", " ", "rv_i", " ", "0", "?", "1", " ", "rd">>

OtherLine == <<"sub", " ", "rv_i", " ", "1", "?">>

\* the catalog files load_csv may find
CsvFiles ==
    {MissingCsv,
     [kind |-> "ok", lines |-> <<>>],
     [kind |-> "ok", lines |-> <<GoodLine, OtherLine>>],
     [kind |-> "ok", lines |-> <<GoodLine, <<"sub", " ", "rv_i">>, OtherLine>>],
     [kind |-> "ok", lines |-> <<GoodLine, <<>>, <<" ", " ", " ">>, OtherLine>>],
     [kind |-> "ok", lines |-> <<GoodLine, <<"\\xff">>, OtherLine>>]}

\* the catalog of an earlier load
PreviousCatalog == <<Instruction(<<"old">>, <<"rv_i">>, <<"0">>, <<>>)>>

InitCatalog ==
    /\ signal_name_edit = <<"InstTypeCtrl">>
    /\ encoding_combo = "OneHot"
    /\ value_widgets = <<>>
    /\ ctrl_code_editor = EmptyEditor
    /\ records_file = MissingFile
    /\ clock = 0
    /\ last = Idle
    /\ csv_file \in CsvFiles
    /\ generator_instructions \in {<<>>, PreviousCatalog}
    /\ writers = NoWriters
    /\ scala_files = NoFiles

CallRunConverter ==
    /\ last = Idle
    /\ \E input \in JsonInputs, args \in ConverterArgs, can_write \in BOOLEAN :
          RunConverter(input, args, can_write)

CallLoadCsv == last.op \in {"none", "db_main"} /\ LoadCsv

NextCatalog ==
    \/ CallRunConverter
    \/ CallLoadCsv

SpecCatalog == InitCatalog /\ [][NextCatalog]_vars

----------------------------------------------------------------------------
(* Code generation: generate_ctrl_code, generate_field_code and format_code
   called on a signal dict, a template setting and a code text *)

\* a call of generate_ctrl_code or generate_field_code on a signal dict
Render(op, template, auto_format, signal, now) ==
    /\ last' = [arg  |-> [template |-> template, auto_format |-> auto_format,
                          signal |-> signal, now |-> now],
                code |-> IF op = "generate_ctrl_code"
                         THEN CtrlCodeText(template, auto_format, signal, now)
                         ELSE FieldCodeText(template, auto_format, signal, now)]
               @@ Outcome(op, NoError, <<>>, TRUE, TRUE)
    /\ UNCHANGED <<session, ctrl_code_editor, records_file, clock, catalog_vars, outside_vars>>

\* a call of format_code on a code text
Format(code) ==
    /\ last' = [arg |-> [code |-> code], code |-> FormatCode(code)]
               @@ Outcome("format_code", NoError, <<>>, TRUE, TRUE)
    /\ UNCHANGED <<session, ctrl_code_editor, records_file, clock, catalog_vars, outside_vars>>

\* the values of the signals rendered: none, one without instructions, the
\* two of the example, lists around one and two full lines, a name that is
\* a placeholder
FirstInsts(k) == [i \in 1..k |-> i]

RenderValues ==
    {<<>>,
     <<[k |-> <<"NOP">>, v |-> <<>>]>>,
     <<[k |-> <<"ALU">>, v |-> <<1, 2>>], [k |-> <<"MEM">>, v |-> <<3>>]>>,
     <<[k |-> <<"MEM">>, v |-> <<3>>], [k |-> <<"NOP">>, v |-> <<>>],
       [k |-> <<"ALU">>, v |-> <<2, 1>>]>>,
     <<[k |-> <<"{methods_list}">>, v |-> <<1>>]>>}
    \cup {<<[k |-> <<"ALU">>, v |-> FirstInsts(k)]>> :
             k \in {PerLine - 1, PerLine, PerLine + 1, 2 * PerLine, 2 * PerLine + 1}}

RenderNames == {<<"InstType">>, <<"{encoding_type}">>, <<"Inst", " ", "{values_list}">>}

RenderSignals ==
    {[name |-> name, encoding_type |-> encoding_type,
      width |-> Width(encoding_type, Len(values)), values |-> values] :
        name \in RenderNames, encoding_type \in Encodings, values \in RenderValues}

\* the template settings: none, and custom ones with and without the
\* placeholders of the two generators
PlainTemplate ==
    <<"class", " ", "{other}", " ", "{", " ", "\n", " ", "x", " ", "{", "}", "\n",
      " ", " ", "\n", "}">>

Templates ==
    {<<>>,
     PlainTemplate,
     <<"{other}">>,
     <<"object", " ", "{signal_name}", ":", "{encoding_type}", ":", "{signal_width}",
       " ", "{", "\n", "{values_list}", "\n", "{methods_list}", "\n", "}", " ",
       "{signal_name}">>,
     <<"{generation_time}", " ", "{other}", "\n", "{value_mappings}", "\n",
       "{methods_list}">>,
     <<"a", " ", "=>", "\n", "{value_mappings}", " ", "\n", "{values_list}">>,
     <<"{methods_list}">>,
     <<"{value_mappings}">>}

\* the lines of the code texts format_code is called on
MaxLines == 3

LineShapes ==
    {<<>>,
     <<" ", " ">>,
     <<"x">>,
     <<" ", " ", " ", "x", " ">>,
     <<"a", " ", "{">>,
     <<"}">>,
     <<" ", "}", " ", "else", " ", "{", " ">>,
     <<"case", " ", "=>">>,
     <<"x", " ", "{other}">>}

RECURSIVE CodesOf(_)
CodesOf(n) ==
    IF n = 1 THEN LineShapes
    ELSE CodesOf(n - 1)
         \cup {code \o <<"\n">> \o line : code \in CodesOf(n - 1), line \in LineShapes}

InitRender ==
    /\ signal_name_edit = <<"InstTypeCtrl">>
    /\ encoding_combo = "OneHot"
    /\ value_widgets = <<>>
    /\ ctrl_code_editor = EmptyEditor
    /\ records_file = MissingFile
    /\ clock = 0
    /\ last = Idle
    /\ csv_file = MissingCsv
    /\ generator_instructions = CatalogInstructions
    /\ writers = NoWriters
    /\ scala_files = NoFiles

CallGenerateCtrlCode ==
    /\ last = Idle
    /\ \E template \in Templates, auto_format \in BOOLEAN, signal \in RenderSignals :
          Render("generate_ctrl_code", template, auto_format, signal, TicksPerSecond)

CallGenerateFieldCode ==
    /\ last = Idle
    /\ \E template \in Templates, auto_format \in BOOLEAN, signal \in RenderSignals :
          Render("generate_field_code", template, auto_format, signal, TicksPerSecond)

CallFormatCode ==
    /\ last = Idle
    /\ \E code \in CodesOf(MaxLines) : Format(code)

NextRender ==
    \/ CallGenerateCtrlCode
    \/ CallGenerateFieldCode
    \/ CallFormatCode

SpecRender == InitRender /\ [][NextRender]_vars

----------------------------------------------------------------------------
(* Processes sharing one records.json: save_record and delete_record step by
   step. Each is load_records(), the change of the list in memory,
   open(records_file, 'w'), which empties the file, and json.dump with the
   close of the file, which writes the text at the start of the file *)

NumWriters == 2

Writers == 1..NumWriters

\* a process about to call save_record(record) or delete_record(record_id)
Writer(op, record, record_id) ==
    [pc |-> "start", op |-> op, record |-> record, record_id |-> record_id,
     records |-> <<>>, raced |-> FALSE]

\* the list written back with the change of the process left out
NewRecords_Keep(writer) == writer.records

\* records.append(record), or the list without the records of record_id
NewRecords(writer) ==
    IF writer.op = "save_record" THEN Append(writer.records, writer.record)
    ELSE WithoutId(writer.records, writer.record_id)

\* records = self.load_records()
ReadStep(w) ==
    /\ writers[w].pc = "start"
    /\ writers' = [writers EXCEPT ![w].records = LoadRecords(records_file),
                                  ![w].pc = "loaded"]
    /\ UNCHANGED <<session, ctrl_code_editor, records_file, clock, last, catalog_vars,
                   scala_files>>

\* open(self.records_file, 'w'): the file is empty until something is written
OpenStep(w) ==
    /\ writers[w].pc = "loaded"
    /\ records_file' = CorruptFile
    /\ writers' = [writers EXCEPT ![w].pc = "opened"]
    /\ UNCHANGED <<session, ctrl_code_editor, clock, last, catalog_vars, scala_files>>

\* json.dump and the close of the file: the text goes to the start of the
\* file. When another process wrote after this one opened the file, the
\* text lands on top of the other's, and what is left of a longer text
\* behind it makes the file no JSON
DumpStep(w) ==
    /\ writers[w].pc = "opened"
    /\ \/ records_file' = OkFile(NewRecords(writers[w]))
       \/ writers[w].raced /\ records_file' = CorruptFile
    /\ writers' = [v \in Writers |->
                      IF v = w THEN [writers[v] EXCEPT !.pc = "done"]
                      ELSE IF writers[v].pc = "opened"
                           THEN [writers[v] EXCEPT !.raced = TRUE]
                      ELSE writers[v]]
    /\ UNCHANGED <<session, ctrl_code_editor, clock, last, catalog_vars, scala_files>>

\* the record the w-th process appends
RaceRecord(w) ==
    StoredRecord(<<>>, [valid |-> TRUE, sec |-> w], [sec |-> w, frac |-> 0])

\* the store the processes find
RaceStores == {MissingFile, OkFile(<<Undated>>), OkFile(<<Late, Undated>>)}

InitRace ==
    /\ signal_name_edit = <<"InstTypeCtrl">>
    /\ encoding_combo = "OneHot"
    /\ value_widgets = <<>>
    /\ ctrl_code_editor = EmptyEditor
    /\ records_file \in RaceStores
    /\ clock = 0
    /\ last = Idle
    /\ csv_file = MissingCsv
    /\ generator_instructions = CatalogInstructions
    /\ \E ops \in [Writers -> {"save_record", "delete_record"}] :
          writers = [w \in Writers |-> Writer(ops[w], RaceRecord(w), Undated.signal_id)]
    /\ scala_files = NoFiles

NextRace ==
    \/ \E w \in Writers : ReadStep(w)
    \/ \E w \in Writers : OpenStep(w)
    \/ \E w \in Writers : DumpStep(w)

SpecRace == InitRace /\ [][NextRace]_vars

----------------------------------------------------------------------------
(* RISCVCtrlGenerator.save_ctrl_file, save_field_file, save_scala_files. A
   file is [path, code], a path [dir, name]; a name that ends in the
   characters Ctrl or Field has "Ctrl" or "Field" as its last token *)

ScalaFile(path, code) == [path |-> path, code |-> code]

\* os.path.exists(file_path)
Exists(files, path) == \E f \in files : f.path = path

\* with open(file_path, 'w') as f: f.write(code)
WriteFile(files, path, code) ==
    {f \in files : f.path /= path} \cup {ScalaFile(path, code)}

\* text.split(token)[0]
Before(text, token) ==
    IF \E i \in DOMAIN text : text[i] = token
    THEN SubSeq(text, 1,
                (CHOOSE i \in DOMAIN text :
                    text[i] = token /\ \A j \in 1..(i - 1) : text[j] /= token) - 1)
    ELSE text

\* the class name taken from the first line of the code that starts with
\* "object ": its second word, cut before extends and before (
RECURSIVE ObjectName(_, _)
ObjectName(lines, default) ==
    IF lines = <<>> THEN default
    ELSE LET line == Strip(Head(lines))
         IN  IF Len(line) >= 2 /\ line[1] = "object" /\ line[2] = " "
             THEN Strip(Before(Strip(Before(SplitWords(line)[2], "extends")), "("))
             ELSE ObjectName(Tail(lines), default)

EndsWith(class_name, suffix) ==
    class_name /= <<>> /\ class_name[Len(class_name)] = suffix

\* the class name of save_ctrl_file
CtrlClassName(code, signal_name) ==
    LET class_name == IF signal_name /= <<>> THEN signal_name
                      ELSE ObjectName(SplitLines(code), <<"ControlSignal">>)
    IN  IF EndsWith(class_name, "Ctrl") THEN class_name ELSE class_name \o <<"Ctrl">>

\* the class name of save_field_file
FieldClassName(code, signal_name) ==
    LET class_name == IF signal_name /= <<>> THEN signal_name
                      ELSE ObjectName(SplitLines(code), <<"ControlSignal", "Field">>)
    IN  IF EndsWith(class_name, "Field") THEN class_name ELSE class_name \o <<"Ctrl">>

\* os.path.join(save_path, f"{class_name}.scala") and
\* os.path.join(save_path, f"{class_name}_{counter}.scala")
Candidate(save_path, class_name, counter) ==
    [dir  |-> save_path,
     name |-> class_name
              \o (IF counter = 0 THEN <<>> ELSE <<"_", ToString(counter)>>)
              \o <<".scala">>]

\* the while loop: the first numbered name from counter on that is free
RECURSIVE FirstFree(_, _, _, _)
FirstFree(files, save_path, class_name, counter) ==
    IF Exists(files, Candidate(save_path, class_name, counter))
    THEN FirstFree(files, save_path, class_name, counter + 1)
    ELSE Candidate(save_path, class_name, counter)

\* the path written with the check of the existing file left out
TargetPath_Base(files, save_path, class_name, overwrite) ==
    Candidate(save_path, class_name, 0)

\* the path written
TargetPath(files, save_path, class_name, overwrite) ==
    IF Exists(files, Candidate(save_path, class_name, 0)) /\ ~overwrite
    THEN FirstFree(files, save_path, class_name, 1)
    ELSE Candidate(save_path, class_name, 0)

\* no file was written
NoPath == [dir |-> "", name |-> <<>>]

\* what a save ends with: the files, the path returned, whether it raised
Saved(files, file_path, raised) ==
    [files |-> files, file_path |-> file_path, raised |-> raised]

\* save_ctrl_file; can_write: the directory can be made and the file opened
SaveCtrlFile(files, save_path, code, signal_name, overwrite, can_write) ==
    LET file_path == TargetPath(files, save_path, CtrlClassName(code, signal_name),
                                overwrite)
    IN  IF can_write THEN Saved(WriteFile(files, file_path, code), file_path, FALSE)
        ELSE Saved(files, NoPath, TRUE)

\* save_field_file
SaveFieldFile(files, save_path, code, signal_name, overwrite, can_write) ==
    LET file_path == TargetPath(files, save_path, FieldClassName(code, signal_name),
                                overwrite)
    IN  IF code = <<>> THEN Saved(files, NoPath, FALSE)
        ELSE IF can_write THEN Saved(WriteFile(files, file_path, code), file_path, FALSE)
        ELSE Saved(files, NoPath, TRUE)

\* the arguments and settings of a save
SaveArgs(ctrl_save_path, field_save_path, ctrl_code, field_code, signal_name, overwrite) ==
    [ctrl_save_path |-> ctrl_save_path, field_save_path |-> field_save_path,
     ctrl_code |-> ctrl_code, field_code |-> field_code, signal_name |-> signal_name,
     overwrite |-> overwrite]

\* the outcome of a save: the two paths returned
SaveOutcome(op, arg, ctrl, field) ==
    [arg |-> arg, ctrl_file_path |-> ctrl.file_path, field_file_path |-> field.file_path]
    @@ Outcome(op,
               IF ctrl.raised \/ field.raised THEN Failure("SaveFailed") ELSE NoError,
               <<>>, ~(ctrl.raised \/ field.raised), ~(ctrl.raised \/ field.raised))

\* save_scala_files(ctrl_code, field_code, signal_name, overwrite)
SaveScalaFiles(arg, can_write_ctrl, can_write_field) ==
    LET ctrl  == SaveCtrlFile(scala_files, arg.ctrl_save_path, arg.ctrl_code,
                              arg.signal_name, arg.overwrite, can_write_ctrl)
        field == IF ctrl.raised \/ arg.field_code = <<>>
                 THEN Saved(ctrl.files, NoPath, FALSE)
                 ELSE SaveFieldFile(ctrl.files, arg.field_save_path, arg.field_code,
                                    arg.signal_name, arg.overwrite, can_write_field)
    IN  /\ scala_files' = field.files
        /\ last' = SaveOutcome("save_scala_files", arg, ctrl, field)
        /\ UNCHANGED <<session, ctrl_code_editor, records_file, clock, catalog_vars,
                       writers>>

\* save_ctrl_file(code, signal_name, overwrite) called on its own
SaveCtrlOnly(arg, can_write) ==
    LET ctrl == SaveCtrlFile(scala_files, arg.ctrl_save_path, arg.ctrl_code,
                             arg.signal_name, arg.overwrite, can_write)
    IN  /\ scala_files' = ctrl.files
        /\ last' = SaveOutcome("save_ctrl_file", arg, ctrl, Saved(ctrl.files, NoPath, FALSE))
        /\ UNCHANGED <<session, ctrl_code_editor, records_file, clock, catalog_vars,
                       writers>>

\* save_field_file(code, signal_name, overwrite) called on its own
SaveFieldOnly(arg, can_write) ==
    LET field == SaveFieldFile(scala_files, arg.field_save_path, arg.field_code,
                               arg.signal_name, arg.overwrite, can_write)
    IN  /\ scala_files' = field.files
        /\ last' = SaveOutcome("save_field_file", arg, Saved(scala_files, NoPath, FALSE),
                               field)
        /\ UNCHANGED <<session, ctrl_code_editor, records_file, clock, catalog_vars,
                       writers>>

\* the numbered names that may be taken before a save
MaxExisting == 2

\* the save directories: the two settings may name the same one
SaveDirs == {"ctrl", "field"}

OldCode == <<"old">>

\* the files found: any of InstTypeCtrl.scala, InstTypeCtrl_1.scala, ... in
\* either directory
OldFiles ==
    {ScalaFile(Candidate(dir, <<"InstType", "Ctrl">>, counter), OldCode) :
        dir \in SaveDirs, counter \in 0..MaxExisting}

SaveNames == {<<>>, <<"InstType">>, <<"InstType", "Ctrl">>, <<"Dec", "Field">>}

CtrlCodes ==
    {<<"// x", "\n", " ", "object", " ", "InstType", "Ctrl", " ", "extends", " ",
       "CtrlEnum", " ", "{", "\n", "}">>,
     <<"x">>}

FieldCodes ==
    {<<>>,
     <<"object", " ", "InstType", "Field", "(", "x", ")", " ", "{", "}">>}

SaveInputs ==
    {SaveArgs("ctrl", field_save_path, ctrl_code, field_code, signal_name, overwrite) :
        field_save_path \in SaveDirs, ctrl_code \in CtrlCodes, field_code \in FieldCodes,
        signal_name \in SaveNames, overwrite \in BOOLEAN}

InitSave ==
    /\ signal_name_edit = <<"InstTypeCtrl">>
    /\ encoding_combo = "OneHot"
    /\ value_widgets = <<>>
    /\ ctrl_code_editor = EmptyEditor
    /\ records_file = MissingFile
    /\ clock = 0
    /\ last = Idle
    /\ csv_file = MissingCsv
    /\ generator_instructions = CatalogInstructions
    /\ writers = NoWriters
    /\ scala_files \in SUBSET OldFiles

CallSaveScalaFiles ==
    /\ last = Idle
    /\ \E arg \in SaveInputs, can_write_ctrl, can_write_field \in BOOLEAN :
          SaveScalaFiles(arg, can_write_ctrl, can_write_field)

CallSaveCtrlFile ==
    /\ last = Idle
    /\ \E arg \in SaveInputs, can_write \in BOOLEAN : SaveCtrlOnly(arg, can_write)

CallSaveFieldFile ==
    /\ last = Idle
    /\ \E arg \in SaveInputs, can_write \in BOOLEAN : SaveFieldOnly(arg, can_write)

NextSave ==
    \/ CallSaveScalaFiles
    \/ CallSaveCtrlFile
    \/ CallSaveFieldFile

SpecSave == InitSave /\ [][NextSave]_vars

----------------------------------------------------------------------------
(* Properties of commit *)

CommitOps == {"generate_code", "create_control_signal"}

Duplicate == "DuplicateInstructionAssignment"

Committed(op) == last.op = op /\ last.error.kind = "none" /\ Len(last.signal) = 1

\* the value definitions commit is given: the named definitions of the
\* session for generate_code, the entries of the mapping passed for
\* create_control_signal
Definitions(op) ==
    IF op = "generate_code"
    THEN LET named == SelectSeq(value_widgets, IsValid)
         IN  [i \in DOMAIN named |->
                 [k |-> ConfigName(named[i]), v |-> named[i].selected_instructions]]
    ELSE Collect(value_widgets).value_mapping

\* inst is held by two definitions with different names
HeldByTwo(op, inst) ==
    LET defs == Definitions(op)
    IN  \E i, j \in DOMAIN defs :
          /\ defs[i].k /= defs[j].k
          /\ inst \in SetOf(defs[i].v)
          /\ inst \in SetOf(defs[j].v)

\* how often inst is listed in the definitions
Claims(op, inst) ==
    LET defs == Definitions(op)
    IN  Cardinality({<<i, j>> \in (DOMAIN defs) \X (1..NumInst) :
                        j \in DOMAIN defs[i].v /\ defs[i].v[j] = inst})

ClaimedTwice(op) == {inst \in Insts : Claims(op, inst) >= 2}

BlankSignalName == \A i \in DOMAIN signal_name_edit : signal_name_edit[i] = " "

Disjoint(op) == ClaimedTwice(op) = {}

\* C2: for every configuration with a non-blank signal name, at least one
\* named value and pairwise-disjoint instruction sets (empty ones allowed),
\* commit succeeds (the user not declining to continue past blank-named
\* definitions) and the record's instructions are exactly the union of the
\* lists in its values.
C2_DisjointCommits ==
    \A op \in CommitOps :
       (/\ last.op = op
        /\ Disjoint(op)
        /\ op = "generate_code" => ~BlankSignalName /\ Definitions(op) /= <<>>
        /\ last.error.kind /= "Cancelled")
       => /\ Committed(op)
          /\ LET signal == last.signal[1]
             IN  /\ signal.instructions =
                       UNION {SetOf(signal.values[i].v) : i \in DOMAIN signal.values}
                 /\ Cardinality(signal.instructions) =
                       Len(Concat(DictValues(signal.values)))

\* a commit of two named values, one of them empty
C2_Witness ==
    /\ Committed("generate_code")
    /\ Len(last.signal[1].values) = 2
    /\ \E i \in 1..2 : last.signal[1].values[i].v = <<>>
    /\ Cardinality(last.signal[1].instructions) = 2

\* C3 as stated: after a successful commit the number of entries in the
\* record's values equals the number of value definitions of the session
\* with a non-blank name, also when two definitions carry the same name.
C3_Original ==
    Committed("generate_code")
    => Len(last.signal[1].values) = Len(SelectSeq(value_widgets, IsValid))

NoNamedValue ==
    \A i \in DOMAIN value_widgets :
       \A h \in DOMAIN value_widgets[i].name_edit : value_widgets[i].name_edit[h] = " "

\* C5 as stated: commit fails with MissingSignalName when the signal name is
\* blank and with EmptyConfiguration when no value definition has a
\* non-blank name; in both cases no record is created and the record store
\* is unchanged.
C5_Original ==
    [][last'.op = "generate_code"
       => /\ BlankSignalName => last'.error.kind = "MissingSignalName"
          /\ NoNamedValue => last'.error.kind = "EmptyConfiguration"
          /\ BlankSignalName \/ NoNamedValue
                => last'.signal = <<>> /\ records_file' = records_file]_vars

\* C5 amended: commit (generate_code) fails with MissingSignalName when the
\* signal name is empty or whitespace only, whatever the value definitions,
\* and with EmptyConfiguration when the signal name is not blank and no
\* value definition has a non-blank name; in both cases no record is
\* created and the record store is unchanged.
C5_BlankRejected ==
    [][last'.op = "generate_code"
       => /\ BlankSignalName
             => /\ last'.error.kind = "MissingSignalName"
                /\ last'.signal = <<>>
                /\ records_file' = records_file
          /\ ~BlankSignalName /\ NoNamedValue
             => /\ last'.error.kind = "EmptyConfiguration"
                /\ last'.signal = <<>>
                /\ records_file' = records_file]_vars

\* a commit refused for a whitespace-only signal name, on a store that
\* holds records, with a named value present
C5_Witness ==
    /\ last.op = "generate_code"
    /\ last.error.kind = "MissingSignalName"
    /\ signal_name_edit = <<" ">>
    /\ \E i \in DOMAIN value_widgets : IsValid(value_widgets[i])
    /\ LoadRecords(records_file) /= <<>>

\* the names in the order of their first appearance
RECURSIVE FirstAppearances(_)
FirstAppearances(names) ==
    IF names = <<>> THEN <<>>
    ELSE LET init == FirstAppearances(SubSeq(names, 1, Len(names) - 1))
             x    == names[Len(names)]
         IN  IF \E i \in DOMAIN init : init[i] = x THEN init ELSE Append(init, x)

\* the names of the named value definitions, in the order they were added
AddedNames ==
    LET named == SelectSeq(value_widgets, IsValid)
    IN  FirstAppearances([i \in DOMAIN named |-> Strip(named[i].name_edit)])

\* C6: the values of a committed record list the value names in the order
\* in which the value definitions were added; the order is the same in the
\* record read back from the store and in the generated value declarations
\* and accessors.
C6_OrderKept ==
    Committed("generate_code")
    => LET signal == last.signal[1]
           stored == LoadRecords(records_file)
       IN  /\ DictKeys(signal.values) = AddedNames
           /\ last.write_ok
                 => \E i \in DOMAIN stored :
                       /\ stored[i] = signal
                       /\ DictKeys(stored[i].values) = AddedNames
           /\ ctrl_code_editor.values_list = [i \in DOMAIN AddedNames |-> [val |-> AddedNames[i]]]
           /\ [i \in DOMAIN ctrl_code_editor.methods_list |->
                  ctrl_code_editor.methods_list[i].is] = AddedNames

\* a stored commit of two values added in other than alphabetical order
C6_Witness ==
    /\ Committed("generate_code")
    /\ last.write_ok
    /\ Len(value_widgets) = 2
    /\ value_widgets[1].name_edit = <<"Value", "2">>
    /\ value_widgets[2].name_edit = <<"Value", "1">>
    /\ Len(LoadRecords(records_file)) > 1

\* no instruction of the record is listed under two value names
Partitioned(record) ==
    \A i, j \in DOMAIN record.values :
       i /= j => SetOf(record.values[i].v) \cap SetOf(record.values[j].v) = {}

\* C7: in every state reached by commits, deletions and loads for editing
\* from an empty store, no record of the store lists an instruction name
\* under two different value names.
C7_StoredPartitioned ==
    \A i \in DOMAIN records_file.records : Partitioned(records_file.records[i])

\* a record of two non-empty values, stored and loaded back for editing
C7_Witness ==
    /\ last.op = "load_record_data"
    /\ Len(last.signal[1].values) = 2
    /\ \A i \in 1..2 : last.signal[1].values[i].v /= <<>>
    /\ \E i \in DOMAIN records_file.records : records_file.records[i] = last.signal[1]

\* 2^w
RECURSIVE Pow2(_)
Pow2(w) == IF w = 0 THEN 1 ELSE 2 * Pow2(w - 1)

\* ceil(log2(n)), 0 for n = 0 and n = 1
CeilLog2(n) ==
    IF n <= 1 THEN 0
    ELSE CHOOSE w \in 1..n : Pow2(w) >= n /\ Pow2(w - 1) < n

\* C8: the width of every committed record is n for OneHot and
\* ceil(log2(n)) for Binary and for Gray, n being the number of values
\* (0 for n = 0 and, Binary and Gray, for n = 1).
C8_WidthFormula ==
    \A op \in CommitOps :
       Committed(op)
       => LET signal == last.signal[1]
              n      == Len(signal.values)
          IN  /\ signal.encoding_type = "OneHot" => signal.width = n
              /\ signal.encoding_type \in {"Binary", "Gray"}
                    => signal.width = CeilLog2(n)

\* a Gray record of five values, of width 3
C8_Witness ==
    /\ Committed("generate_code")
    /\ last.signal[1].encoding_type = "Gray"
    /\ Len(last.signal[1].values) = 5
    /\ last.signal[1].width = 3

\* C9 as stated: whenever the store is written, the signal_id values in it
\* are pairwise distinct, whatever the clock readings of the commits.
C9_Original ==
    \A i, j \in DOMAIN records_file.records :
       i /= j => records_file.records[i].signal_id /= records_file.records[j].signal_id

\* C10: after save_record(r) has written the store, on any prior content,
\* load_records returns a list that contains a record equal to r.
C10_RoundTrip ==
    (/\ last.op \in CommitOps \cup {"save_record"}
     /\ last.error.kind = "none"
     /\ last.write_ok)
    => \E i \in DOMAIN LoadRecords(records_file) :
          LoadRecords(records_file)[i] = last.signal[1]

\* a record without a readable created_at saved to a store of two records
\* and listed behind them
C10_Witness ==
    /\ last.op = "save_record"
    /\ last.write_ok
    /\ ~last.signal[1].created_at.valid
    /\ Len(LoadRecords(records_file)) = 3
    /\ LoadRecords(records_file)[1] /= last.signal[1]

----------------------------------------------------------------------------
(* Properties of the record store *)

\* the records with another id, in their order
Others(records, record_id) ==
    SelectSeq(records, LAMBDA r : r.signal_id /= record_id)

\* C11: delete_record(id), its write done, removes from the store exactly
\* the records whose signal_id is id: load_records afterwards returns no
\* record with that id and returns every record with another id that it
\* returned before, unmodified and in the same order.
C11_DeleteExact ==
    [][(last'.op = "delete_record" /\ last'.write_ok)
       => LET before == LoadRecords(records_file)
              after  == LoadRecords(records_file')
          IN  /\ \A i \in DOMAIN after : after[i].signal_id /= last'.arg
              /\ \A i \in DOMAIN before :
                    before[i].signal_id /= last'.arg
                    => \E j \in DOMAIN after : after[j] = before[i]
              /\ after = Others(before, last'.arg)]_vars

\* a store of three records, two of them under the id deleted: the third
\* is what is left
C11_Witness ==
    /\ last.op = "delete_record"
    /\ last.write_ok
    /\ last.arg = Early.signal_id
    /\ LoadRecords(records_file) = <<Undated>>

\* C12 as stated: delete_record returns true exactly when the call removed
\* at least one record, and false when no record with that id existed.
C12_Original ==
    [][last'.op = "delete_record"
       => LET before == LoadRecords(records_file)
              after  == LoadRecords(records_file')
          IN  /\ last'.returned <=> Len(after) < Len(before)
              /\ (\A i \in DOMAIN before : before[i].signal_id /= last'.arg)
                    => ~last'.returned]_vars

\* how often x occurs in list
Count(list, x) == Cardinality({i \in DOMAIN list : list[i] = x})

\* C13 as stated: load_records returns the stored records sorted by
\* created_at descending: of two records with parseable, different
\* created_at the later comes first, and every record whose created_at is
\* missing or unparseable comes after every record with a parseable one.
C13_Original ==
    LET list == LoadRecords(records_file)
    IN  \A i, j \in DOMAIN list :
           /\ (/\ list[i].created_at.valid
               /\ list[j].created_at.valid
               /\ list[i].created_at.sec > list[j].created_at.sec) => i < j
           /\ (list[i].created_at.valid /\ ~list[j].created_at.valid) => i < j

\* C13 outside that case: load_records returns the records of a readable
\* store, each as often as stored, sorted by created_at descending: of two
\* records with parseable, different created_at the later comes first, and
\* every record whose created_at is missing or unparseable comes after
\* every record with a parseable created_at later than datetime.min.
C13_SortedDesc ==
    LET list == LoadRecords(records_file)
    IN  /\ records_file.kind = "ok"
              => \A i \in DOMAIN records_file.records :
                    Count(list, records_file.records[i])
                       = Count(records_file.records, records_file.records[i])
        /\ \A i, j \in DOMAIN list :
              /\ (/\ list[i].created_at.valid
                  /\ list[j].created_at.valid
                  /\ list[i].created_at.sec > list[j].created_at.sec) => i < j
              /\ (/\ list[i].created_at.valid
                  /\ list[i].created_at.sec > DatetimeMin
                  /\ ~list[j].created_at.valid) => i < j

\* a record saved behind an older and an undated one is listed first
C13_Witness ==
    /\ last.op = "save_record"
    /\ records_file.kind = "ok"
    /\ records_file.records = <<Early, Undated, Late>>
    /\ LoadRecords(records_file) = <<Late, Early, Undated>>

\* C14: load_records returns the empty list, and raises nothing, when the
\* store file is missing and when it is corrupt: not JSON, JSON that is no
\* array, or an array with an element that is no object.
C14_EmptyOnBadFile ==
    records_file.kind \in {"missing", "corrupt", "not_array", "bad_element"}
    => LoadOutcome(records_file) = [raised |-> FALSE, records |-> <<>>]

\* delete_record has read a file holding a JSON value that is no array,
\* found no record in it, and failed to write
C14_Witness ==
    /\ last.op = "delete_record"
    /\ ~last.write_ok
    /\ records_file = NotArrayFile
    /\ LoadOutcome(records_file).records = <<>>

\* C15 as stated: loading a record for editing leaves the store unchanged,
\* and a subsequent successful commit (one that wrote the store) of the
\* loaded configuration adds a new record with a new signal_id while the
\* original stays in the store with all its fields unchanged.
C15_Original ==
    [][/\ last'.op = "load_record_data" => records_file' = records_file
       /\ (/\ last.op = "load_record_data"
           /\ last'.op \in CommitOps
           /\ last'.error.kind = "none"
           /\ last'.write_ok)
          => LET original == last.signal[1]
                 new      == last'.signal[1]
                 after    == LoadRecords(records_file')
             IN  /\ new.signal_id /= original.signal_id
                 /\ \A i \in DOMAIN LoadRecords(records_file) :
                       LoadRecords(records_file)[i].signal_id /= new.signal_id
                 /\ \E i \in DOMAIN after : after[i] = new
                 /\ \E i \in DOMAIN after : after[i] = original]_vars

\* C15, the part that holds: loading a record for editing leaves the store
\* unchanged; a commit (the step that reads the clock) that writes the
\* store adds one record and keeps every record the store held, unchanged;
\* a commit that fails to write leaves the store as it was.
C15_NoMutation ==
    [][/\ last'.op = "load_record_data" => records_file' = records_file
       /\ (last'.op \in CommitOps /\ last'.error.kind = "none" /\ clock' > clock)
          => LET before == LoadRecords(records_file)
                 after  == LoadRecords(records_file')
             IN  IF last'.write_ok
                 THEN /\ Len(after) = Len(before) + 1
                      /\ \E i \in DOMAIN after : after[i] = last'.signal[1]
                      /\ \A i \in DOMAIN before :
                            Count(after, before[i]) >= Count(before, before[i])
                 ELSE records_file' = records_file]_vars

\* a record loaded for editing and committed again: the store holds the
\* original and the new record, alike but for their ids
C15_Witness ==
    LET list == LoadRecords(records_file)
    IN  /\ last.op = "generate_code"
        /\ last.write_ok
        /\ Len(list) = 2
        /\ list[1].values = list[2].values
        /\ list[1].values /= <<>>
        /\ list[1].signal_id /= list[2].signal_id
        /\ value_widgets = WidgetsOf(list[2].values)

\* C16 as stated: a failure to write the record store during commit is
\* surfaced to the caller: commit never returns a signal while the new
\* record is absent from the store.
C16_Original ==
    \A op \in CommitOps :
       Committed(op)
       => \E i \in DOMAIN LoadRecords(records_file) :
             LoadRecords(records_file)[i] = last.signal[1]

----------------------------------------------------------------------------
(* Properties of the converter and of the catalog load *)

\* the entries of the input that parse_riscv_json turns into instructions
Converted(data) ==
    SelectSeq(data, LAMBDA entry : entry.body.is_dict /\ entry.body.encoding /= <<>>)

\* C17: convert_encoding_to_question_marks returns a string of the length
\* of its input in which every 0 and 1 keeps its place and every other
\* character is a question mark; the empty input gives the empty output.
C17_QuestionMarks ==
    /\ ConvertEncoding(<<>>) = <<>>
    /\ (last.op = "db_main" /\ last.arg.input.kind = "ok")
       => LET given  == Converted(last.arg.input.data)
              parsed == ParseRiscvJson(last.arg.input.data)
          IN  /\ Len(parsed) = Len(given)
              /\ \A i \in DOMAIN given :
                    LET encoding == given[i].body.encoding
                        result   == parsed[i].encoding
                    IN  /\ Len(result) = Len(encoding)
                        /\ \A k \in DOMAIN encoding :
                              /\ encoding[k] \in {"0", "1"} => result[k] = encoding[k]
                              /\ encoding[k] \notin {"0", "1"} => result[k] = "?"
                        /\ last.exit.writes /\ Len(given) = 1
                              => \E a, b \in 1..Len(csv_file.lines[1]) :
                                    SubSeq(csv_file.lines[1], a, b) = result

\* a space and a 1 written to the catalog file as ?1
C17_Witness ==
    /\ last.op = "db_main"
    /\ last.exit.writes
    /\ Len(last.arg.input.data) = 1
    /\ last.arg.input.data[1].body.encoding = <<" ", "1">>
    /\ last.exit.instructions[1].encoding = <<"?", "1">>
    /\ csv_file.lines[1] = <<"add", " ", "rv_i", " ", "?", "1", " ", "rd">>

\* the expected Instruction of a descriptor: its name, all its tags as one
\* token, the normalized encoding, its variable fields in order
Expected(entry) ==
    Instruction(entry.name, JoinSpace(entry.body.extension),
                ConvertEncoding(entry.body.encoding), entry.body.variable_fields)

\* C18 as stated: the catalog load rejects any non-empty line with fewer
\* than 3 tokens: the load fails instead of completing with the line skipped.
C18_Original ==
    [][(/\ last'.op = "load_csv"
        /\ \E i \in DOMAIN csv_file.lines :
              csv_file.lines[i] /= <<>> /\ Len(CsvRow(csv_file.lines[i])) < 3)
       => /\ last'.error.kind /= "none"
          /\ ~last'.returned]_vars

\* C19 as stated: if a catalog load fails, the catalog in memory afterwards
\* equals the catalog before the call.
C19_Original ==
    [][(last'.op = "load_csv" /\ last'.error.kind /= "none")
       => generator_instructions' = generator_instructions]_vars

\* the converter wrote every descriptor of its input, unfiltered
WroteAll ==
    /\ last.op = "db_main"
    /\ last.exit.writes
    /\ last.exit.instructions = ParseRiscvJson(last.arg.input.data)

\* C20 as stated: for every descriptor with a non-empty encoding, with
\* zero, one or several extension tags and zero or more variable fields,
\* the line the converter writes is parsed by the catalog load into the
\* Instruction with the descriptor's name, all its tags as one token, the
\* normalized encoding and exactly its variable fields in order.
C20_Original ==
    [][(WroteAll /\ last'.op = "load_csv")
       => LET given == Converted(last.arg.input.data)
          IN  /\ Len(generator_instructions') = Len(given)
              /\ \A i \in DOMAIN given :
                    generator_instructions'[i] = Expected(given[i])]_vars

\* C20 for the descriptors it holds for: those with at most one extension
\* tag and at least one variable field.
C20_RoundTripPlain ==
    [][(WroteAll /\ last'.op = "load_csv")
       => LET given == Converted(last.arg.input.data)
          IN  /\ Len(generator_instructions') = Len(given)
              /\ \A i \in DOMAIN given :
                    (/\ Len(given[i].body.extension) <= 1
                     /\ given[i].body.variable_fields /= <<>>)
                    => generator_instructions'[i] = Expected(given[i])]_vars

\* a descriptor of one tag and two fields, converted and loaded
C20_Witness ==
    /\ last.op = "load_csv"
    /\ generator_instructions =
          <<Instruction(<<"add">>, <<"rv_i">>, <<"?", "1">>, << <<"rd">>, <<"rs1">> >>)>>
    /\ csv_file.lines = << <<"add", " ", "rv_i", " ", "?", "1", " ", "rd", " ", "rs1">> >>

\* the allow-set the caller of db.py names with --extensions
AllowSet(args) == SetOf(ExtensionsList(args.extensions.items))

\* the tags of the descriptors that become instructions
KnownTags(data) ==
    UNION {SetOf(Converted(data)[i].body.extension) : i \in DOMAIN Converted(data)}

\* the instructions of the descriptors whose tags meet the allow-set, in the
\* order of the input
Allowed(data, allow) ==
    LET given == Converted(data)
        keep  == SelectSeq([i \in DOMAIN given |-> i],
                           LAMBDA i : SetOf(given[i].body.extension) \cap allow /= {})
    IN  [k \in DOMAIN keep |-> ParseRiscvJson(data)[keep[k]]]

\* a run of db.py that gets to the filter with a non-empty allow-set
Filters(run) ==
    /\ run.op = "db_main"
    /\ run.arg.input.kind = "ok"
    /\ Converted(run.arg.input.data) /= <<>>
    /\ ~run.arg.args.list_extensions
    /\ run.arg.args.extensions.given
    /\ AllowSet(run.arg.args) /= {}

\* C21: extension filtering keeps exactly the instructions whose tags meet
\* the allow-set, in their original order; when no tag of the allow-set is
\* known to the catalog the run fails with NoMatchingExtensions, exits
\* non-zero and writes no output.
C21_FilterExact ==
    [][Filters(last')
       => LET run   == last'
              data  == run.arg.input.data
              allow == AllowSet(run.arg.args)
          IN  IF allow \cap KnownTags(data) = {}
              THEN /\ run.exit.kind = "NoMatchingExtensions"
                   /\ run.exit.exit_code /= 0
                   /\ ~run.exit.writes
                   /\ csv_file' = csv_file
              ELSE /\ run.exit.instructions = Allowed(data, allow)
                   /\ run.exit.writes => csv_file' = CsvFileOf(Allowed(data, allow))
                   /\ ~run.exit.writes => csv_file' = csv_file]_vars

\* " rv64_i ,zzz" keeps the second of two instructions and writes it
C21_Witness ==
    /\ Filters(last)
    /\ AllowSet(last.arg.args) = {<<"rv64_i">>, <<"zzz">>}
    /\ Len(ParseRiscvJson(last.arg.input.data)) = 2
    /\ last.exit.writes
    /\ csv_file.lines = << <<"sub", " ", "rv64_i", " ", "1", "?", " ">> >>

\* an encoding the validation pass objects to
BadEncoding(encoding) ==
    \/ Len(encoding) /= EncodingBits
    \/ \E i \in DOMAIN encoding : encoding[i] \notin {"0", "1", "?"}

\* --extensions is given and is not the empty string
FilterAsked(args) == args.extensions.given /\ args.extensions.items /= <<>>

\* the run has no instruction to work on
NoInstructions(run) ==
    \/ run.arg.input.kind /= "ok"
    \/ Converted(run.arg.input.data) = <<>>

\* the run filters, and no tag of the allow-set is valid or known
FilterFails(run) ==
    /\ ~run.arg.args.list_extensions
    /\ FilterAsked(run.arg.args)
    /\ AllowSet(run.arg.args) \cap KnownTags(run.arg.input.data) = {}

----------------------------------------------------------------------------
(* Properties of the code generators *)

RenderOps == {"generate_ctrl_code", "generate_field_code"}

\* the template a generator starts from
TemplateUsed(op, template) ==
    IF template /= <<>> THEN template
    ELSE IF op = "generate_ctrl_code" THEN DefaultCtrlTemplate
    ELSE DefaultFieldTemplate

\* the placeholders a generator replaces
Recognized(op) ==
    IF op = "generate_ctrl_code"
    THEN {"{signal_name}", "{encoding_type}", "{values_list}", "{methods_list}",
          "{signal_width}", "{generation_time}"}
    ELSE {"{signal_name}", "{encoding_type}", "{signal_width}", "{value_mappings}",
          "{generation_time}"}

\* the content a placeholder stands for
Content(placeholder, signal, now) ==
    CASE placeholder = "{signal_name}"     -> signal.name
      [] placeholder = "{encoding_type}"   -> <<signal.encoding_type>>
      [] placeholder = "{values_list}"     -> ValuesListText(signal.values)
      [] placeholder = "{methods_list}"    -> MethodsListText(signal.values)
      [] placeholder = "{signal_width}"    -> <<ToString(signal.width)>>
      [] placeholder = "{generation_time}" -> TimeText(now)
      [] placeholder = "{value_mappings}"  -> ValueMappingsText(signal.name, signal.values)

\* one pass over the template: every recognized placeholder gives way to its
\* content, every other token stays, and nothing put in is looked at again
SinglePass(op, template, signal, now) ==
    LET used == TemplateUsed(op, template)
    IN  Concat([i \in DOMAIN used |->
                   IF used[i] \in Recognized(op) THEN Content(used[i], signal, now)
                   ELSE <<used[i]>>])

\* the contents put in hold a placeholder of the generator
ContentHoldsPlaceholder(op, template, signal, now) ==
    \E p \in Recognized(op) \cap SetOf(TemplateUsed(op, template)) :
       SetOf(Content(p, signal, now)) \cap Recognized(op) /= {}

\* C23 as stated: rendering is a single substitution pass; every placeholder
\* occurrence of the template is replaced exactly once and the text put in,
\* a signal name or value name holding a placeholder included, is not
\* substituted again.
C23_Original ==
    (last.op \in RenderOps /\ ~last.arg.auto_format)
    => last.code = SinglePass(last.op, last.arg.template, last.arg.signal, last.arg.now)

\* C23 where it holds: when no content put in holds a placeholder of the
\* generator, the code is the single pass over the template.
C23_SinglePassPlain ==
    (/\ last.op \in RenderOps
     /\ ~last.arg.auto_format
     /\ ~ContentHoldsPlaceholder(last.op, last.arg.template, last.arg.signal, last.arg.now))
    => last.code = SinglePass(last.op, last.arg.template, last.arg.signal, last.arg.now)

\* a custom template with the signal name twice, rendered without formatting
C23_Witness ==
    /\ last.op = "generate_ctrl_code"
    /\ ~last.arg.auto_format
    /\ last.arg.signal.name = <<"InstType">>
    /\ Len(last.arg.signal.values) = 2
    /\ Len(SelectSeq(last.arg.template, LAMBDA token : token = "{signal_name}")) = 2
    /\ Len(SelectSeq(last.code, LAMBDA token : token = "InstType")) = 2

\* how often a token occurs in a text
Occurrences(token, text) == Len(SelectSeq(text, LAMBDA t : t = token))

\* a text without its blanks
Unspaced(text) == SelectSeq(text, LAMBDA t : t /= " ")

\* the brace-enclosed words of the templates
BraceWords ==
    {"{signal_name}", "{encoding_type}", "{values_list}", "{methods_list}",
     "{signal_width}", "{generation_time}", "{value_mappings}", "{other}"}

\* the tokens put into the code in place of the placeholders of the template
PutIn(op, template, signal, now) ==
    UNION {SetOf(Content(p, signal, now)) :
              p \in Recognized(op) \cap SetOf(TemplateUsed(op, template))}

\* C24: a custom template without a recognized placeholder is rendered as
\* itself, apart from the blanks the optional formatting changes; a
\* brace-enclosed word that is no recognized placeholder is left in place in
\* every rendering, and the rendering does not fail.
C24_Untouched ==
    (last.op \in RenderOps /\ last.arg.template /= <<>>)
    => LET template == last.arg.template
       IN  /\ last.error.kind = "none"
           /\ SetOf(template) \cap Recognized(last.op) = {}
              => /\ ~last.arg.auto_format => last.code = template
                 /\ Unspaced(last.code) = Unspaced(template)
                 /\ Len(SplitLines(last.code)) = Len(SplitLines(template))
           /\ \A word \in BraceWords \ Recognized(last.op) :
                 word \notin PutIn(last.op, template, last.arg.signal, last.arg.now)
                 => Occurrences(word, last.code) = Occurrences(word, template)

\* a template of unknown words only, re-indented by the formatting
C24_Witness ==
    /\ last.op = "generate_ctrl_code"
    /\ last.arg.template = PlainTemplate
    /\ last.arg.auto_format
    /\ last.code /= PlainTemplate
    /\ Occurrences("{other}", last.code) = 1

\* ceil(k / n)
CeilDiv(k, n) == (k + n - 1) \div n

\* the lines of the accessor block of a value: a head, the lines of names
\* and a closing line when it has instructions, and an empty line
BlockLen(inst_list) ==
    IF inst_list = <<>> THEN 2 ELSE CeilDiv(Len(inst_list), PerLine) + 3

\* the lines before the block of the i-th value
RECURSIVE BlockStart(_, _)
BlockStart(values, i) ==
    IF i = 1 THEN 0 ELSE BlockStart(values, i - 1) + BlockLen(values[i - 1].v)

\* the names on a line of code, quotes, commas and blanks left out
NamesOn(line) == SelectSeq(line, LAMBDA t : t \notin {" ", ",", "\""})

\* the block of lines is the accessor of value_name listing inst_list
IsAccessor(block, value_name, inst_list) ==
    LET k     == Len(inst_list)
        rows  == CeilDiv(k, PerLine)
        names == [r \in 1..rows |-> NamesOn(block[r + 1])]
    IN  /\ SubSeq(block[1], 1, 5 + Len(value_name))
              = <<" ", " ", "def", " ", "is">> \o value_name
        /\ block[Len(block)] = <<>>
        /\ IF k = 0
           THEN block[1][Len(block[1])] = "Seq()"
           ELSE /\ block[1][Len(block[1])] = "Seq("
                /\ Strip(block[rows + 2]) = <<")">>
                /\ Concat(names) = [i \in 1..k |-> ToString(inst_list[i])]
                /\ \A r \in 1..rows :
                      /\ Len(names[r]) = IF r < rows THEN PerLine ELSE k - PerLine * (rows - 1)
                      /\ Occurrences("\"", block[r + 1]) = 2 * Len(names[r])
                      /\ Occurrences(",", block[r + 1])
                            = IF r < rows THEN Len(names[r]) ELSE Len(names[r]) - 1

\* C25: methods_list holds one accessor block per value, in partition order;
\* a value with k > 0 instructions has every instruction once, quoted, in
\* list order, on ceil(k/5) lines of 5 names each but possibly the last; a
\* value without instructions has an accessor returning an empty sequence.
C25_MethodsList ==
    (/\ last.op = "generate_ctrl_code"
     /\ last.arg.template = <<"{methods_list}">>
     /\ ~last.arg.auto_format)
    => LET values == last.arg.signal.values
           lines  == SplitLines(last.code)
       IN  /\ Len(lines) = BlockStart(values, Len(values) + 1) + 1
           /\ lines[Len(lines)] = <<>>
           /\ \A i \in DOMAIN values :
                 IsAccessor(SubSeq(lines, BlockStart(values, i) + 1,
                                   BlockStart(values, i + 1)),
                            values[i].k, values[i].v)

\* eleven instructions on three lines
C25_Witness ==
    /\ last.op = "generate_ctrl_code"
    /\ last.arg.template = <<"{methods_list}">>
    /\ ~last.arg.auto_format
    /\ Len(last.arg.signal.values) = 1
    /\ Len(last.arg.signal.values[1].v) = 2 * PerLine + 1
    /\ Len(SplitLines(last.code)) = 7
    /\ NamesOn(SplitLines(last.code)[4]) = <<"11">>

\* name.Values(name.value_name), the reference to the member of the enumeration
MemberRef(name, value_name) ==
    name \o <<".", "Values(">> \o name \o <<".">> \o value_name \o <<")">>

\* name.is<value_name>, the reference to the accessor of the value
AccessorRef(name, value_name) == name \o <<".", "is">> \o value_name

\* a line of value_mappings without its indentation and its comma
EntryOf(line) ==
    LET entry == Strip(line)
    IN  IF entry /= <<>> /\ entry[Len(entry)] = ","
        THEN SubSeq(entry, 1, Len(entry) - 1) ELSE entry

\* value_mappings as rendered: one line per value, a comma at the end of
\* every line but the last
OnePerValue(code, values) ==
    LET lines == SplitLines(code)
    IN  /\ Len(lines) = Len(values)
        /\ \A i \in DOMAIN values :
              LET line == lines[i]
              IN  (line[Len(line)] = ",") <=> (i < Len(values))

\* the calls that return value_mappings alone
MappingsOnly ==
    /\ last.op = "generate_field_code"
    /\ last.arg.template = <<"{value_mappings}">>
    /\ ~last.arg.auto_format
    /\ last.arg.signal.values /= <<>>

\* C26 as stated: value_mappings has one entry per value in partition order,
\* each pairing the accessor of the value with its enumeration member, for
\* values with and without instructions alike, with a comma between entries
\* and none after the last.
C26_Original ==
    MappingsOnly
    => LET values == last.arg.signal.values
           name   == last.arg.signal.name
       IN  /\ OnePerValue(last.code, values)
           /\ \A i \in DOMAIN values :
                 EntryOf(SplitLines(last.code)[i])
                    = AccessorRef(name, values[i].k) \o <<" ", "->", " ">>
                      \o MemberRef(name, values[i].k)

\* C26, amended: value_mappings has one entry per value in partition order,
\* pairing the accessor of a value that has instructions, and the empty
\* sequence Seq() for a value that has none, with the enumeration member of
\* the value; a comma between entries and none after the last.
C26_ValueMappings ==
    MappingsOnly
    => LET values == last.arg.signal.values
           name   == last.arg.signal.name
       IN  /\ OnePerValue(last.code, values)
           /\ \A i \in DOMAIN values :
                 EntryOf(SplitLines(last.code)[i])
                    = (IF values[i].v /= <<>> THEN AccessorRef(name, values[i].k)
                       ELSE <<"Seq()">>)
                      \o <<" ", "->", " ">> \o MemberRef(name, values[i].k)

\* three values, the second without instructions
C26_Witness ==
    /\ MappingsOnly
    /\ last.arg.signal.name = <<"InstType">>
    /\ Len(last.arg.signal.values) = 3
    /\ last.arg.signal.values[2].v = <<>>
    /\ EntryOf(SplitLines(last.code)[2])
          = <<"Seq()", " ", "->", " ", "InstType", ".", "Values(", "InstType", ".", "NOP", ")">>

\* a line closes a brace: stripped, it starts with or ends with "}"
Closes(line) ==
    LET stripped == Strip(line)
    IN  stripped /= <<>> /\ ("}" \in {stripped[1], stripped[Len(stripped)]}
                             \/ EndsWithClose(stripped[Len(stripped)]))

\* a line opens a block: stripped, it ends with "{" or "=>"
Opens(line) ==
    LET stripped == Strip(line)
    IN  stripped /= <<>> /\ stripped[Len(stripped)] \in {"{", "=>"}

\* the indentation level the i-th line is written at, and the level after it
RECURSIVE LevelAfter(_, _)
LevelAt(lines, i) ==
    LET before == LevelAfter(lines, i - 1)
    IN  IF Closes(lines[i]) /\ before > 0 THEN before - 1 ELSE before

LevelAfter(lines, i) ==
    IF i = 0 THEN 0
    ELSE LevelAt(lines, i) + (IF Opens(lines[i]) THEN 1 ELSE 0)

\* C27: the formatting pass keeps the number of lines and the non-blank
\* content of each line; the level never goes below 0, goes down by one
\* before a line that starts or ends with "}" and up by one after a line that
\* ends with "{" or "=>"; a non-blank line is written at two blanks per
\* level, a blank line as an empty line.
C27_Formatting ==
    last.op = "format_code"
    => LET lines     == SplitLines(last.arg.code)
           formatted == SplitLines(last.code)
       IN  /\ Len(formatted) = Len(lines)
           /\ \A i \in DOMAIN lines :
                 /\ Unspaced(formatted[i]) = Unspaced(lines[i])
                 /\ LevelAt(lines, i) >= 0
                 /\ IF Strip(lines[i]) = <<>> THEN formatted[i] = <<>>
                    ELSE formatted[i] = Spaces(2 * LevelAt(lines, i)) \o RStrip(lines[i])

\* a block of one indented line with a trailing blank
C27_Witness ==
    /\ last.op = "format_code"
    /\ last.arg.code = <<"a", " ", "{", "\n", " ", " ", " ", "x", " ", "\n", "}">>
    /\ last.code = <<"a", " ", "{", "\n", " ", " ", " ", " ", " ", "x", "\n", "}">>

----------------------------------------------------------------------------
(* Properties of processes sharing the store *)

AllDone == writers /= NoWriters /\ \A w \in Writers : writers[w].pc = "done"

\* the store holds the record the w-th process appended
Holds(w) == \E i \in DOMAIN records_file.records : records_file.records[i] = RaceRecord(w)

\* C28: the append is a read-modify-write without a transaction: when all
\* writers are done the store is what one of them read with its own change
\* applied (or no JSON at all after overlapping writes), so the record
\* another one appended is missing when that writer read before it was
\* written; with two appends interleaved, both complete and one record lost.
C28_LastWriterWins ==
    AllDone
    => \/ records_file = CorruptFile /\ \E w \in Writers : writers[w].raced
       \/ \E w \in Writers :
             /\ records_file.kind = "ok"
             /\ records_file.records
                   = IF writers[w].op = "save_record"
                     THEN Append(writers[w].records, RaceRecord(w))
                     ELSE WithoutId(writers[w].records, Undated.signal_id)
             /\ \A v \in Writers :
                   (v /= w /\ writers[v].op = "save_record"
                    /\ RaceRecord(v) \notin SetOf(writers[w].records))
                   => ~Holds(v)

\* both appends completed and the record of the first is not in the store
C28_Witness ==
    /\ AllDone
    /\ \A w \in Writers : writers[w].op = "save_record"
    /\ records_file.kind = "ok"
    /\ ~Holds(1)
    /\ Holds(2)
    /\ Undated \in SetOf(records_file.records)

----------------------------------------------------------------------------
(* Properties of the editing session *)

\* the instructions the i-th value definition holds
Held(i) == SetOf(value_widgets[i].selected_instructions)

\* C29: from a session without values, after any sequence of add-value,
\* remove-value and completed select_instructions, whatever is picked and
\* however the conflict question is answered, no value holds an instruction
\* another value holds: the instruction sets are pairwise disjoint.
C29_Disjoint ==
    \A i, j \in DOMAIN value_widgets : i /= j => Held(i) \cap Held(j) = {}

\* two values, each holding an instruction
C29_Witness ==
    /\ Len(value_widgets) >= 2
    /\ Held(1) = {2}
    /\ Held(2) = {1}

----------------------------------------------------------------------------
(* Properties of the saves *)

SaveOps == {"save_scala_files", "save_ctrl_file", "save_field_file"}

\* file_path is the first of class_name.scala, class_name_1.scala, ... that
\* names no file of files
FirstCandidate(files, file_path, save_path, class_name) ==
    \E counter \in 0..(Cardinality(files) + 1) :
       /\ file_path = Candidate(save_path, class_name, counter)
       /\ ~Exists(files, file_path)
       /\ \A earlier \in 0..(counter - 1) :
             Exists(files, Candidate(save_path, class_name, earlier))

\* C30: a save with overwrite = false changes no file that exists: the Ctrl
\* code and the Field code each go to the first of <Class>.scala,
\* <Class>_1.scala, <Class>_2.scala, ... that does not exist, so the two of
\* one save_scala_files call are in two different files and every file
\* there was keeps its content.
C30_NoOverwrite ==
    [][(last'.op \in SaveOps /\ ~last'.arg.overwrite)
       => LET run   == last'
              arg   == run.arg
              ctrl  == run.ctrl_file_path
              field == run.field_file_path
              mid   == IF ctrl = NoPath THEN scala_files
                       ELSE scala_files \cup {ScalaFile(ctrl, arg.ctrl_code)}
          IN  /\ scala_files \subseteq scala_files'
              /\ scala_files' = mid \cup (IF field = NoPath THEN {}
                                         ELSE {ScalaFile(field, arg.field_code)})
              /\ ctrl /= NoPath
                 => FirstCandidate(scala_files, ctrl, arg.ctrl_save_path,
                                   CtrlClassName(arg.ctrl_code, arg.signal_name))
              /\ field /= NoPath
                 => /\ FirstCandidate(mid, field, arg.field_save_path,
                                      FieldClassName(arg.field_code, arg.signal_name))
                    /\ field /= ctrl
              /\ \A p \in {ctrl, field} \ {NoPath} :
                    Cardinality({f \in scala_files' : f.path = p}) = 1]_vars

\* both codes saved into one directory that holds InstTypeCtrl.scala and
\* InstTypeCtrl_1.scala
C30_Witness ==
    /\ last.op = "save_scala_files"
    /\ ~last.arg.overwrite
    /\ last.arg.field_save_path = "ctrl"
    /\ last.ctrl_file_path = Candidate("ctrl", <<"InstType", "Ctrl">>, 2)
    /\ last.field_file_path = Candidate("ctrl", <<"InstType", "Ctrl">>, 3)
    /\ ScalaFile(Candidate("ctrl", <<"InstType", "Ctrl">>, 0), OldCode) \in scala_files
    /\ ScalaFile(Candidate("ctrl", <<"InstType", "Ctrl">>, 1), OldCode) \in scala_files

====
